---- MODULE Spec2Model ----
(***************************************************************************)
(* Verification model of the finorax indicator / round-scoring engine.     *)
(*                                                                         *)
(*   src/shared/utils/time.py                 snap_to_interval, _parse_freq *)
(*   src/application/use_cases/evaluate_round.py          EvaluateRound.run *)
(*   src/infrastructure/indicators/ccxt_service.py     target-candle rule   *)
(*                                                                         *)
(* Instants are carried as integer milliseconds since the epoch (the       *)
(* source works on float epoch seconds; every quantity it handles here is  *)
(* a whole number of milliseconds, so the arithmetic is the same modular   *)
(* arithmetic, scaled by 1000).  Strings that the code parses are tuples   *)
(* of one-character strings.                                               *)
(***************************************************************************)
EXTENDS Integers, Sequences, FiniteSets, TLC

VARIABLES
    \* --- snap_to_interval harness (SpecSnap) ---
    snap_pc,        \* "start" | "once" | "twice"
    snap_dt,        \* the datetime argument (a record, or None)
    snap_freq,      \* the freq argument (tuple of characters)
    snap_mode,      \* the mode argument
    snap_once,      \* snap_to_interval(dt, freq, mode)
    snap_twice,     \* snap_to_interval(snap_once, freq, mode)
    snap_ts,        \* the epoch value (ms) the first call worked on
    \* --- EvaluateRound.run (SpecEval) ---
    ev_pc,          \* "start" | "list" | "loop" | "returned" | "raised"
    ev_round,       \* the Round argument
    ev_timeframe,   \* the timeframe argument
    ev_now,         \* datetime.now(timezone.utc) as read by the window check
    ev_rounds,      \* self.rounds is not None
    ev_snapped,     \* <<snapped_start, snapped_end>>
    ev_obs,         \* obs, the list the observation store returned
    ev_i,           \* position of the for loop in obs
    ev_asset_cache, \* asset_cache
    ev_failed_assets,   \* failed_assets
    ev_agent_scores,    \* agent_scores
    ev_result,      \* the returned RoundEvaluation, or the raised exception
    ev_calls,       \* calls made on the collaborators, in order, with what they gave
    ev_saved,       \* evaluations the round repository has persisted
    \* --- CcxtIndicatorService, target-candle resolution (SpecTarget) ---
    ix_pc,          \* "start" | "resolved" | "raised"
    ix_op,          \* the operation called
    ix_at,          \* `at` (get_price_change: `start`)
    ix_end,         \* get_price_change: `end`
    ix_timeframe,   \* the timeframe argument
    ix_period,      \* period (get_sma_cross: fast_period)
    ix_slow_period, \* get_sma_cross: slow_period
    ix_known,       \* the symbol is in exchange.markets, after the reload if one is made
    ix_targets,     \* the target candles resolved, as [t_ms, frame_ms, target_ms]
    ix_result,      \* the exception raised, None when none
    \* --- CcxtIndicatorService._rsi_series (SpecRsi) ---
    rsi_pc,         \* "start" | "done"
    rsi_closes,     \* closes
    rsi_period,     \* period
    rsi_values,     \* the list _rsi_series returned
    \* --- CcxtIndicatorService, one whole call (SpecIndicator) ---
    ind_pc,         \* "start" | "market" | "fetch" | "more" | "returned" | "raised"
    ind_call,       \* the operation called and its arguments
    ind_markets,    \* the symbol is in exchange.markets
    ind_io,         \* requests issued to the exchange, in order
    ind_target,     \* the target candle(s) as [t_ms, frame_ms, target_ms], once resolved
    ind_raw,        \* rows the first fetch_ohlcv returned
    ind_more,       \* rows the corrective fetch_ohlcv returned
    ind_ohlcv,      \* ohlcv, the series the indicator is computed on
    ind_result,     \* the value returned or the exception raised
    \* --- Round and Round.snapped (SpecRound) ---
    rd_pc,          \* "start" | "built" | "snapped" | "raised"
    rd_args,        \* the arguments: window bounds, timeframe, start_mode, end_mode
    rd_round,       \* the Round built from the window bounds
    rd_snapped,     \* what round.snapped(timeframe, start_mode, end_mode) gave
    \* --- BackfillRecentRounds.run on a SupabaseRoundRepository (SpecBackfill) ---
    bf_pc,          \* "start" | "loop" | "returned" | "raised"
    bf_args,        \* n, timeframe, now and self._min_events_per_round
    bf_windows,     \* windows, the rounds of the run, latest first
    bf_have,        \* have, what existing_round_keys returned
    bf_i,           \* position of the for loop in windows
    bf_processed,   \* processed
    bf_skipped,     \* skipped
    bf_calls,       \* calls the run made on its collaborators, in order
    bf_result,      \* the BackfillResult returned, or the exception raised
    bf_rounds_table,\* keys of the rows of the table rounds
    bf_scores_table,\* <<round_key, observation_id>> of the rows of round_scores
    bf_runs,        \* runs started on the instance
    \* --- two EvaluateRound.run invocations on one instance (SpecTwoEvals) ---
    tw_runs,        \* per invocation: its arguments, its locals, its calls and its result
    tw_saved,       \* evaluations self.rounds has persisted
    \* --- an indicator call made twice on one candle history (SpecRepeat) ---
    rep_history,    \* the candles the exchange holds for the symbol, one per timestamp
    rep_listed,     \* the exchange lists the symbol
    rep_page,       \* the most candles the exchange puts in one response
    rep_n,          \* which call of the two is running
    rep_first       \* what the first call returned or raised

snapVars == <<snap_pc, snap_dt, snap_freq, snap_mode, snap_once, snap_twice, snap_ts>>

evVars == <<ev_pc, ev_round, ev_timeframe, ev_now, ev_rounds, ev_snapped, ev_obs, ev_i,
            ev_asset_cache, ev_failed_assets, ev_agent_scores, ev_result, ev_calls, ev_saved>>

ixVars == <<ix_pc, ix_op, ix_at, ix_end, ix_timeframe, ix_period, ix_slow_period, ix_known,
            ix_targets, ix_result>>

rsiVars == <<rsi_pc, rsi_closes, rsi_period, rsi_values>>

indVars == <<ind_pc, ind_call, ind_markets, ind_io, ind_target, ind_raw, ind_more, ind_ohlcv,
             ind_result>>

rdVars == <<rd_pc, rd_args, rd_round, rd_snapped>>

bfVars == <<bf_pc, bf_args, bf_windows, bf_have, bf_i, bf_processed, bf_skipped, bf_calls,
            bf_result, bf_rounds_table, bf_scores_table, bf_runs>>

twVars == <<tw_runs, tw_saved>>

repVars == <<rep_history, rep_listed, rep_page, rep_n, rep_first>>

vars == <<snapVars, evVars, ixVars, rsiVars, indVars, rdVars, bfVars, twVars, repVars>>

notSnapVars == <<evVars, ixVars, rsiVars, indVars, rdVars, bfVars, twVars, repVars>>

notEvVars == <<snapVars, ixVars, rsiVars, indVars, rdVars, bfVars, twVars, repVars>>

notIxVars == <<snapVars, evVars, rsiVars, indVars, rdVars, bfVars, twVars, repVars>>

notRsiVars == <<snapVars, evVars, ixVars, indVars, rdVars, bfVars, twVars, repVars>>

notIndVars == <<snapVars, evVars, ixVars, rsiVars, rdVars, bfVars, twVars, repVars>>

notRdVars == <<snapVars, evVars, ixVars, rsiVars, indVars, bfVars, twVars, repVars>>

notBfVars == <<snapVars, evVars, ixVars, rsiVars, indVars, rdVars, twVars, repVars>>

notTwVars == <<snapVars, evVars, ixVars, rsiVars, indVars, rdVars, bfVars, repVars>>

notRepVars == <<snapVars, evVars, ixVars, rsiVars, indVars, rdVars, bfVars, twVars>>

\* Python's None, and a raised exception, as values of the model
None == [none |-> TRUE]

Raised(e, msg) == [err |-> e, msg |-> msg]

(***************************************************************************)
(* The state of a component that the specification at hand does not run.   *)
(***************************************************************************)
EvIdle ==
    /\ ev_pc = "idle"
    /\ ev_round = None
    /\ ev_timeframe = <<>>
    /\ ev_now = None
    /\ ev_rounds = FALSE
    /\ ev_snapped = None
    /\ ev_obs = <<>>
    /\ ev_i = 0
    /\ ev_asset_cache = <<>>
    /\ ev_failed_assets = {}
    /\ ev_agent_scores = <<>>
    /\ ev_result = None
    /\ ev_calls = <<>>
    /\ ev_saved = <<>>

SnapIdle ==
    /\ snap_pc = "idle"
    /\ snap_dt = None
    /\ snap_freq = <<>>
    /\ snap_mode = "floor"
    /\ snap_once = None
    /\ snap_twice = None
    /\ snap_ts = 0

IxIdle ==
    /\ ix_pc = "idle"
    /\ ix_op = ""
    /\ ix_at = None
    /\ ix_end = None
    /\ ix_timeframe = <<>>
    /\ ix_period = 0
    /\ ix_slow_period = 0
    /\ ix_known = FALSE
    /\ ix_targets = <<>>
    /\ ix_result = None

RsiIdle ==
    /\ rsi_pc = "idle"
    /\ rsi_closes = <<>>
    /\ rsi_period = 0
    /\ rsi_values = <<>>

IndIdle ==
    /\ ind_pc = "idle"
    /\ ind_call = None
    /\ ind_markets = FALSE
    /\ ind_io = <<>>
    /\ ind_target = <<>>
    /\ ind_raw = <<>>
    /\ ind_more = <<>>
    /\ ind_ohlcv = <<>>
    /\ ind_result = None

RdIdle ==
    /\ rd_pc = "idle"
    /\ rd_args = None
    /\ rd_round = None
    /\ rd_snapped = None

BfIdle ==
    /\ bf_pc = "idle"
    /\ bf_args = None
    /\ bf_windows = <<>>
    /\ bf_have = {}
    /\ bf_i = 0
    /\ bf_processed = 0
    /\ bf_skipped = 0
    /\ bf_calls = <<>>
    /\ bf_result = None
    /\ bf_rounds_table = {}
    /\ bf_scores_table = {}
    /\ bf_runs = 0

TwIdle ==
    /\ tw_runs = <<>>
    /\ tw_saved = {}

RepIdle ==
    /\ rep_history = {}
    /\ rep_listed = FALSE
    /\ rep_page = 0
    /\ rep_n = 0
    /\ rep_first = None

(***************************************************************************)
(* Bounds of the model.                                                    *)
(***************************************************************************)
\* wall-clock values are SlotMs * k + d for k in -1 .. MaxSlot
MaxSlot == 25

\* longest list the observation store returns
MaxObs == 3

\* query instants of the indicator service are SlotMs * k + d for k in 0 .. MaxAtSlot
MaxAtSlot == 4

\* frequency strings given to the parser are all strings of at most MaxFreqLen characters
MaxFreqLen == 3

\* longest closes series given to _rsi_series
MaxCloses == 4

\* most rows the first fetch_ohlcv of a call returns
MaxRows == 3

(***************************************************************************)
(* Datetimes.  A datetime is [wall |-> ms of its wall-clock fields read as *)
(* if they were UTC, aware |-> tzinfo is not None, off |-> utcoffset, ms]. *)
(***************************************************************************)
\* thirty minutes and one hour, in ms
SlotMs == 30 * 60 * 1000

HourMs == 60 * 60 * 1000

Datetime(w, a, o) == [wall |-> w, aware |-> a, off |-> o]

\* naive, UTC, and +01:00
Zones == {<<FALSE, 0>>, <<TRUE, 0>>, <<TRUE, HourMs>>}

\* datetime.timestamp() of an aware datetime: wall clock minus utcoffset
timestamp(dt) == dt.wall - dt.off

\* datetime.fromtimestamp(x, tz=timezone.utc)
fromtimestamp_utc(x) == Datetime(x, TRUE, 0)

IsDatetime(v) == "wall" \in DOMAIN v

(***************************************************************************)
(* _parse_freq: re.fullmatch(r"\s*(\d+)\s*([mhdMHD])\s*", freq)            *)
(***************************************************************************)
Whitespace == {" ", "\t"}

Digits == {"0", "1", "2", "3", "4", "5", "6", "7", "8", "9"}

DigitValue(c) ==
    CASE c = "0" -> 0 [] c = "1" -> 1 [] c = "2" -> 2 [] c = "3" -> 3
      [] c = "4" -> 4 [] c = "5" -> 5 [] c = "6" -> 6 [] c = "7" -> 7
      [] c = "8" -> 8 [] c = "9" -> 9

UnitChars == {"m", "h", "d", "M", "H", "D"}

\* str.lower() on the unit letters
lower(c) == CASE c = "M" -> "m" [] c = "H" -> "h" [] c = "D" -> "d" [] OTHER -> c

\* _UNITS = {"m": 60, "h": 3600, "d": 86400}  (seconds)
_UNITS == [u \in {"m", "h", "d"} |-> CASE u = "m" -> 60 [] u = "h" -> 3600 [] u = "d" -> 86400]

RECURSIVE SkipWhitespace(_, _)
\* index of the first character at or after i that \s* does not consume
SkipWhitespace(s, i) ==
    IF i <= Len(s) /\ s[i] \in Whitespace THEN SkipWhitespace(s, i + 1) ELSE i

RECURSIVE SkipDigits(_, _)
\* index of the first character at or after i that \d+ does not consume
SkipDigits(s, i) ==
    IF i <= Len(s) /\ s[i] \in Digits THEN SkipDigits(s, i + 1) ELSE i

RECURSIVE IntOf(_, _, _, _)
\* int(n) for the digits s[i .. j-1]
IntOf(s, i, j, acc) ==
    IF i >= j THEN acc ELSE IntOf(s, i + 1, j, acc * 10 + DigitValue(s[i]))

\* what _parse_freq gives when the pattern does not match (it raises ValueError)
NoMatch == 0 - 1

\* re.match in place of re.fullmatch: whatever follows the unit letter is ignored
_parse_freq_prefix_match(freq) ==
    LET a == SkipWhitespace(freq, 1)
        b == SkipDigits(freq, a)
        c == SkipWhitespace(freq, b)
    IN  IF b > a /\ c <= Len(freq) /\ freq[c] \in UnitChars
        THEN IntOf(freq, a, b, 0) * _UNITS[lower(freq[c])]
        ELSE NoMatch

\* the step in seconds, or NoMatch
_parse_freq(freq) ==
    LET a == SkipWhitespace(freq, 1)
        b == SkipDigits(freq, a)
        c == SkipWhitespace(freq, b)
        d == SkipWhitespace(freq, c + 1)
    IN  IF b > a /\ c <= Len(freq) /\ freq[c] \in UnitChars /\ d = Len(freq) + 1
        THEN IntOf(freq, a, b, 0) * _UNITS[lower(freq[c])]
        ELSE NoMatch

(***************************************************************************)
(* snap_to_interval(dt, freq, mode); `now` stands for datetime.now(utc),   *)
(* read only when dt is None.                                              *)
(***************************************************************************)
Modes == {"floor", "ceil", "nearest"}

\* the ceil branch with the on-grid test lost: always moves to the next grid point
snap_arith_always_up(ts, step, mode) ==
    LET rem == ts % step
    IN  CASE mode = "floor"   -> ts - rem
          [] mode = "ceil"    -> ts + (step - rem)
          [] mode = "nearest" -> IF 2 * rem < step THEN ts - rem ELSE ts + (step - rem)

\* rem taken with the sign of ts (C fmod) instead of Python's floored modulo
snap_arith_fmod(ts, step, mode) ==
    LET rem == IF ts >= 0 THEN ts % step ELSE 0 - ((0 - ts) % step)
    IN  CASE mode = "floor"   -> ts - rem
          [] mode = "ceil"    -> IF rem = 0 THEN ts ELSE ts + (step - rem)
          [] mode = "nearest" -> IF 2 * rem < step THEN ts - rem ELSE ts + (step - rem)

\* the nearest branch with the tie sent down (rem <= step/2 rounds down)
snap_arith_half_down(ts, step, mode) ==
    LET rem == ts % step
    IN  CASE mode = "floor"   -> ts - rem
          [] mode = "ceil"    -> IF rem = 0 THEN ts ELSE ts + (step - rem)
          [] mode = "nearest" -> IF 2 * rem <= step THEN ts - rem ELSE ts + (step - rem)

\* lines 33-41: rem and the three modes (step > 0, both in ms)
snap_arith(ts, step, mode) ==
    LET rem == ts % step
    IN  CASE mode = "floor"   -> ts - rem
          [] mode = "ceil"    -> IF rem = 0 THEN ts ELSE ts + (step - rem)
          [] mode = "nearest" -> IF 2 * rem < step THEN ts - rem ELSE ts + (step - rem)

\* the epoch value (ms) snap_to_interval works on
snap_input_ts(dt, now) ==
    IF dt = None THEN timestamp(now)
    ELSE IF ~dt.aware THEN dt.wall           \* dt.replace(tzinfo=timezone.utc)
    ELSE timestamp(dt)

snap_to_interval(dt, freq, mode, now) ==
    LET step == _parse_freq(freq)
    IN  IF step = NoMatch THEN Raised("ValueError", "freq must look like '30m', '1h', or '1d'")
        ELSE IF step = 0 THEN Raised("ZeroDivisionError", "float modulo")     \* ts % step
        ELSE IF mode \notin Modes THEN Raised("ValueError", "mode must be 'nearest' | 'floor' | 'ceil'")
        ELSE fromtimestamp_utc(snap_arith(snap_input_ts(dt, now), step * 1000, mode))

(***************************************************************************)
(* EvaluateRound.run                                                       *)
(*                                                                         *)
(* An observation is [agent_id, event_id, asset_symbol, zi_score, id].     *)
(* asset_symbol is None or Str(s); zi_score is None or IntVal(v); id is    *)
(* None, a uuid, or NoAttr when the object has no attribute `id` at all,   *)
(* which is the case of the dataclass src/domain/observations.py declares. *)
(***************************************************************************)
IntVal(v) == [int |-> v]

Str(s) == [str |-> s]

Uuid(k) == [uuid |-> k]

NoAttr == [noattr |-> TRUE]

RECURSIVE lstrip(_)
lstrip(s) == IF s # <<>> /\ Head(s) \in Whitespace THEN lstrip(Tail(s)) ELSE s

RECURSIVE rstrip(_)
rstrip(s) ==
    IF s # <<>> /\ s[Len(s)] \in Whitespace THEN rstrip(SubSeq(s, 1, Len(s) - 1)) ELSE s

\* str.strip()
strip(s) == rstrip(lstrip(s))

upper_char(c) ==
    CASE c = "b" -> "B" [] c = "t" -> "T" [] c = "c" -> "C"
      [] c = "e" -> "E" [] c = "h" -> "H" [] OTHER -> c

\* str.upper()
upper(s) == [i \in 1 .. Len(s) |-> upper_char(s[i])]

\* the symbol compared without trimming and upper-casing
normalize_symbol_raw(asset_symbol) == IF asset_symbol = None THEN <<>> ELSE asset_symbol.str

\* line 41: sym = (o.asset_symbol or "").strip().upper()
normalize_symbol(asset_symbol) ==
    upper(strip(IF asset_symbol = None THEN <<>> ELSE asset_symbol.str))

\* _require_utc does not raise
require_utc(dt) == dt.aware /\ dt.off = 0

\* the future check made on the unsnapped window_end
window_check_raw_end(round, timeframe, now) ==
    IF ~require_utc(round.window_start)
    THEN Raised("ValueError", "round.window_start must be timezone-aware UTC")
    ELSE IF ~require_utc(round.window_end)
    THEN Raised("ValueError", "round.window_end must be timezone-aware UTC")
    ELSE LET snapped_start == snap_to_interval(round.window_start, timeframe, "floor", now)
             snapped_end == snap_to_interval(round.window_end, timeframe, "floor", now)
         IN  IF ~IsDatetime(snapped_start) THEN snapped_start
             ELSE IF ~IsDatetime(snapped_end) THEN snapped_end
             ELSE IF timestamp(snapped_end) <= timestamp(snapped_start)
             THEN Raised("ValueError", "Snapped window_end must be greater than window_start for given timeframe")
             ELSE IF timestamp(round.window_end) > timestamp(now)
             THEN Raised("ValueError", "round window_end cannot be in the future")
             ELSE [snapped_start |-> snapped_start, snapped_end |-> snapped_end]

\* lines 21-30: the exception the checks raise, or the snapped window
window_check(round, timeframe, now) ==
    IF ~require_utc(round.window_start)
    THEN Raised("ValueError", "round.window_start must be timezone-aware UTC")
    ELSE IF ~require_utc(round.window_end)
    THEN Raised("ValueError", "round.window_end must be timezone-aware UTC")
    ELSE LET snapped_start == snap_to_interval(round.window_start, timeframe, "floor", now)
             snapped_end == snap_to_interval(round.window_end, timeframe, "floor", now)
         IN  IF ~IsDatetime(snapped_start) THEN snapped_start
             ELSE IF ~IsDatetime(snapped_end) THEN snapped_end
             ELSE IF timestamp(snapped_end) <= timestamp(snapped_start)
             THEN Raised("ValueError", "Snapped window_end must be greater than window_start for given timeframe")
             ELSE IF timestamp(snapped_end) > timestamp(now)
             THEN Raised("ValueError", "round window_end cannot be in the future")
             ELSE [snapped_start |-> snapped_start, snapped_end |-> snapped_end]

IsRaised(v) == "err" \in DOMAIN v

\* what one pass of the loop body leaves: the three locals, the collaborator
\* calls it made, and the exception that left the loop (None when none did)
Step(cache, failed, scores, calls, error) ==
    [asset_cache |-> cache, failed_assets |-> failed, agent_scores |-> scores,
     calls |-> calls, error |-> error]

PriceChangeCall(sym, snapped, timeframe, ret) ==
    [op |-> "get_price_change", symbol |-> sym, start |-> snapped.snapped_start,
     end |-> snapped.snapped_end, timeframe |-> timeframe, ret |-> ret]

RoundAgentScore(agent_id, observation_id, score) ==
    [agent_id |-> agent_id, observation_id |-> observation_id, score |-> score]

CachePut(cache, sym, v) ==
    [k \in DOMAIN cache \cup {sym} |-> IF k = sym THEN v ELSE cache[k]]

\* the score folded into the agent's row when the agent already has one
score_observation_per_agent(o, sym, cache, failed, scores, calls) ==
    IF o.id = NoAttr
    THEN Step(cache, failed, scores, calls,
              Raised("AttributeError", "'Observation' object has no attribute 'id'"))
    ELSE IF o.id = None THEN Step(cache, failed, scores, calls, None)
    ELSE IF \E j \in 1 .. Len(scores) : scores[j].agent_id = o.agent_id
    THEN Step(cache, failed,
              [j \in 1 .. Len(scores) |->
                  IF scores[j].agent_id = o.agent_id
                  THEN [scores[j] EXCEPT !.score = @ + cache[sym] * o.zi_score.int]
                  ELSE scores[j]],
              calls, None)
    ELSE Step(cache, failed,
              Append(scores, RoundAgentScore(o.agent_id, o.id, cache[sym] * o.zi_score.int)),
              calls, None)

\* lines 63-74: the id check and the row, once asset_cache holds sym
score_observation(o, sym, cache, failed, scores, calls) ==
    IF o.id = NoAttr
    THEN Step(cache, failed, scores, calls,
              Raised("AttributeError", "'Observation' object has no attribute 'id'"))
    ELSE IF o.id = None THEN Step(cache, failed, scores, calls, None)
    ELSE Step(cache, failed,
              Append(scores, RoundAgentScore(o.agent_id, o.id, cache[sym] * o.zi_score.int)),
              calls, None)

\* the loop body without `except Exception`: the indicator's exception leaves the loop
loop_body_no_except(o, cache, failed, scores, snapped, timeframe, outcome) ==
    LET sym == normalize_symbol(o.asset_symbol)
        call == <<PriceChangeCall(sym, snapped, timeframe, outcome)>>
    IN  IF sym = <<>> THEN Step(cache, failed, scores, <<>>, None)
        ELSE IF o.zi_score = None THEN Step(cache, failed, scores, <<>>, None)
        ELSE IF sym \in failed THEN Step(cache, failed, scores, <<>>, None)
        ELSE IF sym \notin DOMAIN cache
        THEN IF IsRaised(outcome)
             THEN Step(cache, failed, scores, call, outcome)
             ELSE score_observation(o, sym, CachePut(cache, sym, outcome.pct_change),
                                    failed, scores, call)
        ELSE score_observation(o, sym, cache, failed, scores, <<>>)

\* the loop body without the failed_assets test: a failed symbol is fetched again
loop_body_refetch(o, cache, failed, scores, snapped, timeframe, outcome) ==
    LET sym == normalize_symbol(o.asset_symbol)
        call == <<PriceChangeCall(sym, snapped, timeframe, outcome)>>
    IN  IF sym = <<>> THEN Step(cache, failed, scores, <<>>, None)
        ELSE IF o.zi_score = None THEN Step(cache, failed, scores, <<>>, None)
        ELSE IF sym \notin DOMAIN cache
        THEN IF IsRaised(outcome)
             THEN Step(cache, failed \cup {sym}, scores, call, None)
             ELSE score_observation(o, sym, CachePut(cache, sym, outcome.pct_change),
                                    failed, scores, call)
        ELSE score_observation(o, sym, cache, failed, scores, <<>>)

\* lines 41-74: one pass of the loop body on observation o; `outcome` is what
\* get_price_change gives if this pass calls it (a DTO or a raised exception)
loop_body(o, cache, failed, scores, snapped, timeframe, outcome) ==
    LET sym == normalize_symbol(o.asset_symbol)
        call == <<PriceChangeCall(sym, snapped, timeframe, outcome)>>
    IN  IF sym = <<>> THEN Step(cache, failed, scores, <<>>, None)
        ELSE IF o.zi_score = None THEN Step(cache, failed, scores, <<>>, None)
        ELSE IF sym \in failed THEN Step(cache, failed, scores, <<>>, None)
        ELSE IF sym \notin DOMAIN cache
        THEN IF IsRaised(outcome)
             THEN Step(cache, failed \cup {sym}, scores, call, None)
             ELSE score_observation(o, sym, CachePut(cache, sym, outcome.pct_change),
                                    failed, scores, call)
        ELSE score_observation(o, sym, cache, failed, scores, <<>>)

RECURSIVE insert_desc_before_ties(_, _)
\* r placed in front of the rows whose score equals its own
insert_desc_before_ties(s, r) ==
    IF s = <<>> THEN <<r>>
    ELSE IF Head(s).score > r.score THEN <<Head(s)>> \o insert_desc_before_ties(Tail(s), r)
    ELSE <<r>> \o s

RECURSIVE insert_desc(_, _)
\* r placed behind every row whose score is >= its own
insert_desc(s, r) ==
    IF s = <<>> THEN <<r>>
    ELSE IF Head(s).score >= r.score THEN <<Head(s)>> \o insert_desc(Tail(s), r)
    ELSE <<r>> \o s

RECURSIVE sort_from(_, _)
sort_from(acc, rest) ==
    IF rest = <<>> THEN acc ELSE sort_from(insert_desc(acc, Head(rest)), Tail(rest))

\* line 76: agent_scores.sort(key=lambda s: s.score, reverse=True), a stable sort
sort_agent_scores(scores) == sort_from(<<>>, scores)

RoundEvaluation(round, agent_scores) == [round |-> round, agent_scores |-> agent_scores]

\* the evaluation built on the snapped window instead of the given round
evaluation_of_snapped(round, snapped, agent_scores) ==
    RoundEvaluation([key |-> round.key, window_start |-> snapped.snapped_start,
                     window_end |-> snapped.snapped_end], agent_scores)

\* line 77: evaluation = RoundEvaluation(round=round, agent_scores=agent_scores)
evaluation_of(round, snapped, agent_scores) == RoundEvaluation(round, agent_scores)

\* the save outside try/except: its exception leaves run
finish_save_propagates(evaluation, rounds, save_raises) ==
    IF rounds /\ save_raises
    THEN [pc |-> "raised", result |-> Raised("Exception", "save failed")]
    ELSE [pc |-> "returned", result |-> evaluation]

\* lines 79-86: the save is best effort, the evaluation is returned either way
finish(evaluation, rounds, save_raises) == [pc |-> "returned", result |-> evaluation]

(***************************************************************************)
(* Inputs of SpecEval.                                                     *)
(***************************************************************************)
MinMs == 60 * 1000

Utc(ms) == Datetime(ms, TRUE, 0)

Round(key, window_start, window_end) ==
    [key |-> key, window_start |-> window_start, window_end |-> window_end]

\* with now = 02:00: r1 ends in the candle that starts at now, r2 lies inside one
\* hour, r3 ends after now, r4 has a naive start, r5 an end at +01:00
EvRounds == {
    Round("r1", Utc(10 * MinMs), Utc(125 * MinMs)),
    Round("r2", Utc(70 * MinMs), Utc(110 * MinMs)),
    Round("r3", Utc(0), Utc(180 * MinMs)),
    Round("r4", Datetime(10 * MinMs, FALSE, 0), Utc(65 * MinMs)),
    Round("r5", Utc(10 * MinMs), Datetime(125 * MinMs, TRUE, HourMs))
}

EvTimeframes == {<<"1", "h">>, <<"3", "0", "m">>, <<"1", "x">>, <<"0", "m">>}

EvNow == Utc(120 * MinMs)

BTC == <<"B", "T", "C">>

ETH == <<"E", "T", "H">>

Observation(agent_id, event_id, asset_symbol, zi_score, id) ==
    [agent_id |-> agent_id, event_id |-> event_id, asset_symbol |-> asset_symbol,
     zi_score |-> zi_score, id |-> id]

\* the observations a list is drawn from; Uuid(0) is replaced by a uuid of its own
ObservationRows == {
    Observation("a1", "e1", Str(BTC), IntVal(2), Uuid(0)),
    Observation("a2", "e1", Str(<<" ", "b", "t", "c", " ">>), IntVal(0 - 1), Uuid(0)),
    Observation("a1", "e2", Str(ETH), IntVal(1), Uuid(0)),
    Observation("a2", "e2", None, IntVal(2), Uuid(0)),
    Observation("a1", "e1", Str(<<" ">>), IntVal(1), Uuid(0)),
    Observation("a2", "e2", Str(ETH), None, Uuid(0)),
    Observation("a1", "e2", Str(BTC), IntVal(0), None),
    Observation("a2", "e1", Str(ETH), IntVal(2), NoAttr)
}

\* observation ids are primary keys: the i-th observation of a list gets uuid i
WithIds(rows) ==
    [i \in 1 .. Len(rows) |->
        IF rows[i].id = Uuid(0) THEN [rows[i] EXCEPT !.id = Uuid(i)] ELSE rows[i]]

ObservationLists ==
    {WithIds(rows) : rows \in UNION {[1 .. n -> ObservationRows] : n \in 0 .. MaxObs}}

\* what get_price_change gives: a DTO (its pct_change) or an exception
PriceOutcomes ==
    {[pct_change |-> 5], [pct_change |-> 0 - 2],
     Raised("ValueError", "Insufficient OHLCV data to compute price change")}

(***************************************************************************)
(* SpecEval: one call of EvaluateRound.run.                                *)
(***************************************************************************)
InitEval ==
    /\ RsiIdle
    /\ IndIdle
    /\ SnapIdle
    /\ IxIdle
    /\ RdIdle
    /\ BfIdle
    /\ TwIdle
    /\ RepIdle
    /\ ev_pc = "start"
    /\ ev_round \in EvRounds
    /\ ev_timeframe \in EvTimeframes
    /\ ev_now = EvNow
    /\ ev_rounds \in BOOLEAN
    /\ ev_snapped = None
    /\ ev_obs = <<>>
    /\ ev_i = 0
    /\ ev_asset_cache = <<>>
    /\ ev_failed_assets = {}
    /\ ev_agent_scores = <<>>
    /\ ev_result = None
    /\ ev_calls = <<>>
    /\ ev_saved = <<>>

\* lines 21-30 raise
EvWindowRejected ==
    /\ ev_pc = "start"
    /\ IsRaised(window_check(ev_round, ev_timeframe, ev_now))
    /\ ev_pc' = "raised"
    /\ ev_result' = window_check(ev_round, ev_timeframe, ev_now)
    /\ UNCHANGED <<notEvVars, ev_round, ev_timeframe, ev_now, ev_rounds, ev_snapped, ev_obs, ev_i,
                   ev_asset_cache, ev_failed_assets, ev_agent_scores, ev_calls, ev_saved>>

\* lines 21-30 pass
EvWindowAccepted ==
    /\ ev_pc = "start"
    /\ ~IsRaised(window_check(ev_round, ev_timeframe, ev_now))
    /\ ev_pc' = "list"
    /\ ev_snapped' = window_check(ev_round, ev_timeframe, ev_now)
    /\ UNCHANGED <<notEvVars, ev_round, ev_timeframe, ev_now, ev_rounds, ev_obs, ev_i, ev_asset_cache,
                   ev_failed_assets, ev_agent_scores, ev_result, ev_calls, ev_saved>>

\* line 32: obs = self.observations.list_in_window(snapped_start, snapped_end)
EvListInWindow ==
    /\ ev_pc = "list"
    /\ \E obs \in ObservationLists :
          /\ ev_obs' = obs
          /\ ev_calls' = Append(ev_calls,
                [op |-> "list_in_window", start |-> ev_snapped.snapped_start,
                 end |-> ev_snapped.snapped_end, ret |-> obs])
    /\ ev_pc' = "loop"
    /\ ev_i' = 1
    /\ UNCHANGED <<notEvVars, ev_round, ev_timeframe, ev_now, ev_rounds, ev_snapped, ev_asset_cache,
                   ev_failed_assets, ev_agent_scores, ev_result, ev_saved>>

\* lines 40-74: one pass of `for o in obs`
EvLoopBody ==
    /\ ev_pc = "loop"
    /\ ev_i <= Len(ev_obs)
    /\ \E outcome \in PriceOutcomes :
          LET st == loop_body(ev_obs[ev_i], ev_asset_cache, ev_failed_assets,
                              ev_agent_scores, ev_snapped, ev_timeframe, outcome)
          IN  /\ ev_asset_cache' = st.asset_cache
              /\ ev_failed_assets' = st.failed_assets
              /\ ev_agent_scores' = st.agent_scores
              /\ ev_calls' = ev_calls \o st.calls
              /\ IF st.error = None
                 THEN ev_pc' = "loop" /\ ev_result' = ev_result
                 ELSE ev_pc' = "raised" /\ ev_result' = st.error
    /\ ev_i' = ev_i + 1
    /\ UNCHANGED <<notEvVars, ev_round, ev_timeframe, ev_now, ev_rounds, ev_snapped, ev_obs, ev_saved>>

\* lines 76-86: sort, build the evaluation, save it when a repository is set, return
EvFinish ==
    /\ ev_pc = "loop"
    /\ ev_i > Len(ev_obs)
    /\ LET sorted == sort_agent_scores(ev_agent_scores)
           evaluation == evaluation_of(ev_round, ev_snapped, sorted)
       IN  \E save_raises \in BOOLEAN :
              LET out == finish(evaluation, ev_rounds, save_raises)
              IN  /\ ev_agent_scores' = sorted
                  /\ ev_calls' =
                        IF ev_rounds
                        THEN Append(ev_calls,
                                [op |-> "save_evaluation", evaluation |-> evaluation,
                                 ret |-> IF save_raises
                                         THEN Raised("Exception", "save failed")
                                         ELSE None])
                        ELSE ev_calls
                  /\ ev_saved' = IF ev_rounds /\ ~save_raises
                                 THEN Append(ev_saved, evaluation) ELSE ev_saved
                  /\ ev_pc' = out.pc
                  /\ ev_result' = out.result
    /\ UNCHANGED <<notEvVars, ev_round, ev_timeframe, ev_now, ev_rounds, ev_snapped, ev_obs, ev_i,
                   ev_asset_cache, ev_failed_assets>>

NextEval ==
    \/ EvWindowRejected
    \/ EvWindowAccepted
    \/ EvListInWindow
    \/ EvLoopBody
    \/ EvFinish

SpecEval == InitEval /\ [][NextEval]_vars

(***************************************************************************)
(* Properties of EvaluateRound.run (SpecEval).                             *)
(***************************************************************************)
\* the asset an asset_symbol string names, read off by hand for the strings
\* the model uses (trimmed and upper-cased); <<>> when it names none
AssetOfText(t) ==
    CASE t = <<" ", "b", "t", "c", " ">> -> BTC
      [] t = BTC -> BTC
      [] t = ETH -> ETH
      [] OTHER -> <<>>

AssetOf(o) == IF o.asset_symbol = None THEN <<>> ELSE AssetOfText(o.asset_symbol.str)

Assets == {BTC, ETH}

\* positions in ev_calls of the get_price_change calls made for asset a
PriceCalls(a) ==
    {k \in 1 .. Len(ev_calls) :
        ev_calls[k].op = "get_price_change" /\ AssetOfText(ev_calls[k].symbol) = a}

PriceSucceeded(a) == \E k \in PriceCalls(a) : ~IsRaised(ev_calls[k].ret)

PriceFailed(a) == \E k \in PriceCalls(a) : IsRaised(ev_calls[k].ret)

\* pct_change[a]: what the successful get_price_change call returned
PctChange(a) ==
    ev_calls[CHOOSE k \in PriceCalls(a) : ~IsRaised(ev_calls[k].ret)].ret.pct_change

HasId(o) == "uuid" \in DOMAIN o.id

\* observation i has a symbol, a directional score and an id, and its price is known
Scoreable(i) ==
    /\ AssetOf(ev_obs[i]) # <<>>
    /\ ev_obs[i].zi_score # None
    /\ HasId(ev_obs[i])
    /\ PriceSucceeded(AssetOf(ev_obs[i]))

\* positions in the returned agent_scores of the rows of observation i
RowsOf(i) ==
    {j \in 1 .. Len(ev_result.agent_scores) :
        /\ ev_result.agent_scores[j].agent_id = ev_obs[i].agent_id
        /\ ev_result.agent_scores[j].observation_id = ev_obs[i].id}

(***************************************************************************)
(* C1: when run returns, every observation with a non-empty symbol, a      *)
(* non-null directional score, a non-null id and a successful price change *)
(* has exactly one row, with its agent_id, its observation_id and score =  *)
(* pct_change[symbol] * directional_score; there are no other rows.        *)
(***************************************************************************)
C1_OneRowPerScoredObservation ==
    ev_pc = "returned" =>
        /\ \A i \in 1 .. Len(ev_obs) :
              Scoreable(i) =>
                 /\ Cardinality(RowsOf(i)) = 1
                 /\ \A j \in RowsOf(i) :
                       ev_result.agent_scores[j].score =
                          PctChange(AssetOf(ev_obs[i])) * ev_obs[i].zi_score.int
        /\ Len(ev_result.agent_scores) =
              Cardinality({i \in 1 .. Len(ev_obs) : Scoreable(i)})

\* one agent scored on two observations of different assets
C1_Witness ==
    /\ ev_pc = "returned"
    /\ \E i, k \in 1 .. Len(ev_obs) :
          /\ i # k
          /\ Scoreable(i) /\ Scoreable(k)
          /\ ev_obs[i].agent_id = ev_obs[k].agent_id
          /\ AssetOf(ev_obs[i]) # AssetOf(ev_obs[k])

(***************************************************************************)
(* C2: a returned agent_scores has no row of an observation that lacks a   *)
(* symbol, a directional score or an id, nor of one whose symbol's price   *)
(* change failed; that failure never ends the run, and the observations of *)
(* the other symbols, before and after it in the list, are still scored.   *)
(***************************************************************************)
C2_Exclusion ==
    /\ \A k \in 1 .. Len(ev_calls) :
          (ev_calls[k].op = "get_price_change" /\ IsRaised(ev_calls[k].ret)) =>
              ev_result # ev_calls[k].ret
    /\ ev_pc = "returned" =>
          /\ \A j \in 1 .. Len(ev_result.agent_scores) :
                LET r == ev_result.agent_scores[j]
                IN  /\ "uuid" \in DOMAIN r.observation_id
                    /\ r.observation_id.uuid \in 1 .. Len(ev_obs)
                    /\ LET o == ev_obs[r.observation_id.uuid]
                       IN  /\ o.id = r.observation_id
                           /\ AssetOf(o) # <<>>
                           /\ o.zi_score # None
                           /\ ~PriceFailed(AssetOf(o))
          /\ \A a \in Assets :
                PriceFailed(a) =>
                    \A i \in 1 .. Len(ev_obs) :
                        (AssetOf(ev_obs[i]) # a /\ Scoreable(i)) => RowsOf(i) # {}

\* a symbol failed between two scored observations of another symbol
C2_Witness ==
    /\ ev_pc = "returned"
    /\ Len(ev_obs) = 3
    /\ PriceFailed(AssetOf(ev_obs[2]))
    /\ Scoreable(1) /\ Scoreable(3)
    /\ Len(ev_result.agent_scores) = 2

(***************************************************************************)
(* C3: once the UTC and window checks have passed, run does not raise,     *)
(* whatever observations it is given.                                      *)
(***************************************************************************)
C3_NeverRaisesAfterWindowChecks ==
    ev_snapped # None => ev_pc # "raised"

(***************************************************************************)
(* C4: within one run get_price_change is called at most once per asset    *)
(* (symbols compared trimmed and upper-cased); after a success every later *)
(* observation of the asset is scored with that one pct_change, after a    *)
(* failure the asset is not fetched again and none of its observations is  *)
(* scored.                                                                 *)
(***************************************************************************)
C4_OneFetchPerSymbol ==
    /\ \A a \in Assets : Cardinality(PriceCalls(a)) <= 1
    /\ \A j \in 1 .. Len(ev_agent_scores) :
          LET o == ev_obs[ev_agent_scores[j].observation_id.uuid]
          IN  /\ PriceSucceeded(AssetOf(o))
              /\ ~PriceFailed(AssetOf(o))
              /\ ev_agent_scores[j].score = PctChange(AssetOf(o)) * o.zi_score.int

\* the loop met an asset again after its fetch: once cached, once failed
C4_Witness ==
    /\ ev_pc = "returned"
    /\ Len(ev_obs) = 3
    /\ AssetOf(ev_obs[1]) = BTC /\ AssetOf(ev_obs[2]) = BTC /\ AssetOf(ev_obs[3]) = ETH
    /\ ev_obs[1].asset_symbol # ev_obs[2].asset_symbol
    /\ Scoreable(1) /\ Scoreable(2)
    /\ PriceFailed(ETH)

(***************************************************************************)
(* C5: the returned agent_scores are sorted by score descending, and rows  *)
(* with equal scores keep the order in which the observation store listed  *)
(* their observations.                                                     *)
(***************************************************************************)
C5_SortedDescendingStable ==
    ev_pc = "returned" =>
        \A j, k \in 1 .. Len(ev_result.agent_scores) :
            j < k =>
               LET a == ev_result.agent_scores[j]
                   b == ev_result.agent_scores[k]
               IN  /\ a.score >= b.score
                   /\ a.score = b.score => a.observation_id.uuid < b.observation_id.uuid

\* the sort moved a row forward, past two rows that tie
C5_Witness ==
    /\ ev_pc = "returned"
    /\ Len(ev_result.agent_scores) = 3
    /\ ev_result.agent_scores[1].observation_id.uuid = 3
    /\ ev_result.agent_scores[2].score = ev_result.agent_scores[3].score

(***************************************************************************)
(* C6: run floors both round bounds to the timeframe grid; when the        *)
(* snapped end does not exceed the snapped start, or is after now, it      *)
(* raises before the observation store, the indicator service or the round *)
(* repository is called; otherwise the store is asked for the floored      *)
(* window.                                                                 *)
(***************************************************************************)
C6_WindowValidation ==
    LET s == snap_to_interval(ev_round.window_start, ev_timeframe, "floor", ev_now)
        e == snap_to_interval(ev_round.window_end, ev_timeframe, "floor", ev_now)
    IN  (/\ ev_pc \notin {"idle", "start"}
         /\ require_utc(ev_round.window_start) /\ require_utc(ev_round.window_end)
         /\ IsDatetime(s) /\ IsDatetime(e)) =>
            IF timestamp(e) <= timestamp(s) \/ timestamp(e) > timestamp(ev_now)
            THEN /\ ev_pc = "raised"
                 /\ ev_result.err = "ValueError"
                 /\ ev_calls = <<>>
                 /\ ev_saved = <<>>
            ELSE /\ ev_snapped = [snapped_start |-> s, snapped_end |-> e]
                 /\ ev_calls # <<>> =>
                       /\ ev_calls[1].op = "list_in_window"
                       /\ ev_calls[1].start = s
                       /\ ev_calls[1].end = e

\* a window whose floored end is after now was rejected
C6_Witness ==
    /\ ev_pc = "raised"
    /\ ev_result.msg = "round window_end cannot be in the future"
    /\ ev_calls = <<>>

(***************************************************************************)
(* C7: when save_evaluation raises, run still returns, and returns the     *)
(* evaluation it handed to save_evaluation: the round it was given and the *)
(* sorted agent_scores, as when the save succeeds.                         *)
(***************************************************************************)
C7_SaveFailureSwallowed ==
    \A k \in 1 .. Len(ev_calls) :
        ev_calls[k].op = "save_evaluation" =>
            /\ ev_pc = "returned"
            /\ ev_result = ev_calls[k].evaluation
            /\ ev_result = RoundEvaluation(ev_round, ev_agent_scores)
            /\ IsRaised(ev_calls[k].ret) => ev_saved = <<>>

\* the save raised on an evaluation with rows
C7_Witness ==
    /\ ev_pc = "returned"
    /\ Len(ev_result.agent_scores) >= 2
    /\ \E k \in 1 .. Len(ev_calls) :
          ev_calls[k].op = "save_evaluation" /\ IsRaised(ev_calls[k].ret)

(***************************************************************************)
(* CcxtIndicatorService: the argument checks and the target-candle rule    *)
(* that open get_rsi, get_sma, get_sma_cross and get_price_change.         *)
(***************************************************************************)
RECURSIVE AllDigits(_, _, _)
AllDigits(s, i, j) == i >= j \/ (s[i] \in Digits /\ AllDigits(s, i + 1, j))

\* exchange.parse_timeframe (ccxt): int(timeframe[0:-1]) scaled by the unit
\* timeframe[-1]; [seconds |-> n] or the exception raised
parse_timeframe(timeframe) ==
    LET n == Len(timeframe)
    IN  IF n < 2 \/ ~AllDigits(timeframe, 1, n)
        THEN Raised("ValueError", "invalid literal for int()")
        ELSE IF timeframe[n] \notin {"s", "m", "h", "d"}
        THEN Raised("NotSupported", "timeframe unit is not supported")
        ELSE [seconds |->
                IntOf(timeframe, 1, n, 0) *
                (CASE timeframe[n] = "s" -> 1 [] timeframe[n] = "m" -> 60
                   [] timeframe[n] = "h" -> 3600 [] timeframe[n] = "d" -> 86400)]

\* target_ms = ((t_ms - 1) // frame_ms) * frame_ms
target_candle(t_ms, frame_ms) == ((t_ms - 1) \div frame_ms) * frame_ms

\* t_ms = int(at.timestamp() * 1000)
to_ms(at) == timestamp(at)

Target(at, frame_ms) ==
    [t_ms |-> to_ms(at), frame_ms |-> frame_ms, target_ms |-> target_candle(to_ms(at), frame_ms)]

MarketNotFound == Raised("ValueError", "Market symbol not found on exchange")

\* lines 56-74: get_rsi up to target_ms
get_rsi_target(at, timeframe, period, known) ==
    IF ~require_utc(at) THEN Raised("ValueError", "at must be timezone-aware UTC")
    ELSE IF period <= 0 THEN Raised("ValueError", "period must be positive")
    ELSE IF ~known THEN MarketNotFound
    ELSE LET tf == parse_timeframe(timeframe)
         IN  IF IsRaised(tf) THEN tf
             ELSE IF tf.seconds * 1000 <= 0 THEN Raised("ValueError", "Invalid timeframe")
             ELSE [targets |-> <<Target(at, tf.seconds * 1000)>>]

\* lines 198-211: get_sma up to target_ms (frame_ms is not tested)
get_sma_target(at, timeframe, period, known) ==
    IF ~require_utc(at) THEN Raised("ValueError", "at must be timezone-aware UTC")
    ELSE IF period <= 0 THEN Raised("ValueError", "period must be positive")
    ELSE IF ~known THEN MarketNotFound
    ELSE LET tf == parse_timeframe(timeframe)
         IN  IF IsRaised(tf) THEN tf
             ELSE IF tf.seconds = 0
             THEN Raised("ZeroDivisionError", "integer division or modulo by zero")
             ELSE [targets |-> <<Target(at, tf.seconds * 1000)>>]

\* lines 247-262: get_sma_cross up to target_ms (frame_ms is not tested)
get_sma_cross_target(at, timeframe, fast_period, slow_period, known) ==
    IF ~require_utc(at) THEN Raised("ValueError", "at must be timezone-aware UTC")
    ELSE IF fast_period <= 0 \/ slow_period <= 0
    THEN Raised("ValueError", "periods must be positive")
    ELSE IF fast_period >= slow_period
    THEN Raised("ValueError", "fast_period must be less than slow_period")
    ELSE IF ~known THEN MarketNotFound
    ELSE LET tf == parse_timeframe(timeframe)
         IN  IF IsRaised(tf) THEN tf
             ELSE IF tf.seconds = 0
             THEN Raised("ZeroDivisionError", "integer division or modulo by zero")
             ELSE [targets |-> <<Target(at, tf.seconds * 1000)>>]

\* lines 131-150: get_price_change up to start_target and end_target
get_price_change_targets(start, end, timeframe, known) ==
    IF ~require_utc(start) THEN Raised("ValueError", "start must be timezone-aware UTC")
    ELSE IF ~require_utc(end) THEN Raised("ValueError", "end must be timezone-aware UTC")
    ELSE IF timestamp(end) <= timestamp(start)
    THEN Raised("ValueError", "end must be greater than start")
    ELSE IF ~known THEN MarketNotFound
    ELSE LET tf == parse_timeframe(timeframe)
         IN  IF IsRaised(tf) THEN tf
             ELSE IF tf.seconds * 1000 <= 0 THEN Raised("ValueError", "Invalid timeframe")
             ELSE [targets |-> <<Target(start, tf.seconds * 1000), Target(end, tf.seconds * 1000)>>]

(***************************************************************************)
(* SpecTarget: one call of an indicator operation, up to its target        *)
(* candle(s).                                                              *)
(***************************************************************************)
AtInstants == {k * SlotMs + d : k \in 0 .. MaxAtSlot, d \in {0, 1, MinMs}}

IxTimeframes == {<<"1", "m">>, <<"1", "h">>, <<"1", "d">>, <<"0", "m">>, <<"1", "x">>, <<"h">>}

InitTarget ==
    /\ SnapIdle
    /\ EvIdle
    /\ RsiIdle
    /\ IndIdle
    /\ RdIdle
    /\ BfIdle
    /\ TwIdle
    /\ RepIdle
    /\ ix_pc = "start"
    /\ ix_op = ""
    /\ ix_at \in {Datetime(w, z[1], z[2]) : w \in AtInstants, z \in Zones}
    /\ ix_end \in {Utc(SlotMs), Utc(3 * HourMs + 1)}
    /\ ix_timeframe \in IxTimeframes
    /\ ix_period \in {0, 2}
    /\ ix_slow_period \in {2, 3}
    /\ ix_known \in BOOLEAN
    /\ ix_targets = <<>>
    /\ ix_result = None

\* the call ends at `out`: an exception, or the targets
IxResolve(op, out) ==
    /\ ix_pc = "start"
    /\ ix_op' = op
    /\ IF IsRaised(out)
       THEN ix_pc' = "raised" /\ ix_result' = out /\ ix_targets' = ix_targets
       ELSE ix_pc' = "resolved" /\ ix_targets' = out.targets /\ ix_result' = ix_result
    /\ UNCHANGED <<notIxVars, ix_at, ix_end, ix_timeframe, ix_period, ix_slow_period, ix_known>>

GetRsi == IxResolve("get_rsi", get_rsi_target(ix_at, ix_timeframe, ix_period, ix_known))

GetSma == IxResolve("get_sma", get_sma_target(ix_at, ix_timeframe, ix_period, ix_known))

GetSmaCross ==
    IxResolve("get_sma_cross",
              get_sma_cross_target(ix_at, ix_timeframe, ix_period, ix_slow_period, ix_known))

GetPriceChange ==
    IxResolve("get_price_change",
              get_price_change_targets(ix_at, ix_end, ix_timeframe, ix_known))

NextTarget == GetRsi \/ GetSma \/ GetSmaCross \/ GetPriceChange

SpecTarget == InitTarget /\ [][NextTarget]_vars

(***************************************************************************)
(* C8: the target candle of every operation is fully closed at the query   *)
(* instant: target_ms + frame_ms <= at_ms, so a candle still forming at    *)
(* `at` is never the target.                                               *)
(***************************************************************************)
C8_TargetCandleClosed ==
    ix_pc = "resolved" =>
        \A k \in 1 .. Len(ix_targets) :
            ix_targets[k].target_ms + ix_targets[k].frame_ms <= ix_targets[k].t_ms

(***************************************************************************)
(* SpecSnap: snap_to_interval applied to bounded inputs, then applied      *)
(* again to its own result.                                                *)
(***************************************************************************)
SubOffsets == {0, 1, 29999, 30000, SlotMs - 1}

Walls == {k * SlotMs + d : k \in (0 - 1) .. MaxSlot, d \in SubOffsets}

Freqs == {
    <<"1", "m">>, <<"3", "0", "m">>, <<" ", "1", "H", " ">>, <<"1", "d">>,
    <<"2", "4", "h">>, <<"9", "0", "m">>, <<"0", "m">>,
    <<"h">>, <<"1", "x">>, <<"-", "1", "h">>, <<"1", ".", "5", "h">>
}

SnapNows == {fromtimestamp_utc(HourMs + 1), fromtimestamp_utc(2 * HourMs)}

InitSnap ==
    /\ EvIdle
    /\ IxIdle
    /\ RsiIdle
    /\ IndIdle
    /\ RdIdle
    /\ BfIdle
    /\ TwIdle
    /\ RepIdle
    /\ snap_pc = "start"
    /\ snap_dt \in {None} \cup {Datetime(w, z[1], z[2]) : w \in Walls, z \in Zones}
    /\ snap_freq \in Freqs
    /\ snap_mode \in Modes \cup {"round"}
    /\ snap_once = None
    /\ snap_twice = None
    /\ snap_ts = 0

SnapOnce ==
    /\ snap_pc = "start"
    /\ \E now \in SnapNows :
          /\ snap_once' = snap_to_interval(snap_dt, snap_freq, snap_mode, now)
          /\ snap_ts' = snap_input_ts(snap_dt, now)
    /\ snap_pc' = "once"
    /\ UNCHANGED <<notSnapVars, snap_dt, snap_freq, snap_mode, snap_twice>>

SnapTwice ==
    /\ snap_pc = "once"
    /\ IsDatetime(snap_once)
    /\ snap_twice' = snap_to_interval(snap_once, snap_freq, snap_mode, snap_once)
    /\ snap_pc' = "twice"
    /\ UNCHANGED <<notSnapVars, snap_dt, snap_freq, snap_mode, snap_once, snap_ts>>

NextSnap == SnapOnce \/ SnapTwice

SpecSnap == InitSnap /\ [][NextSnap]_vars

\* the step (ms) of the harness's frequency, when it parses
SnapStepMs == _parse_freq(snap_freq) * 1000

\* the first call was given a frequency with a positive step and a known mode
SnapCallValid == _parse_freq(snap_freq) > 0 /\ snap_mode \in Modes

(***************************************************************************)
(* C9: snap_to_interval is idempotent.  For every instant, every frequency *)
(* with a positive step and every mode in {floor, ceil, nearest} the first *)
(* call returns an instant, and snapping that instant again with the same  *)
(* frequency and mode returns the same instant.                            *)
(***************************************************************************)
C9_SnapIdempotent ==
    /\ (snap_pc # "start" /\ SnapCallValid) => IsDatetime(snap_once)
    /\ (snap_pc = "once" /\ SnapCallValid) => ENABLED SnapTwice
    /\ snap_pc = "twice" => snap_twice = snap_once

\* a second snap has run on an instant that the first snap had to move
C9_Witness ==
    /\ snap_pc = "twice"
    /\ snap_mode = "ceil"
    /\ timestamp(snap_once) # snap_ts

(***************************************************************************)
(* C10: in mode floor the result is the largest multiple of the step that  *)
(* is <= the instant, in mode ceil the smallest multiple that is >= the    *)
(* instant; an instant already on the grid is returned unchanged by both.  *)
(***************************************************************************)
C10_FloorCeilGrid ==
    (snap_pc # "start" /\ SnapCallValid /\ snap_mode \in {"floor", "ceil"}) =>
        LET r == timestamp(snap_once)
        IN  /\ IsDatetime(snap_once)
            /\ r % SnapStepMs = 0
            /\ snap_mode = "floor" => (r <= snap_ts /\ snap_ts < r + SnapStepMs)
            /\ snap_mode = "ceil" => (snap_ts <= r /\ r < snap_ts + SnapStepMs)
            /\ snap_ts % SnapStepMs = 0 => r = snap_ts

\* floor moved an instant before the epoch down, and ceil kept an on-grid instant
C10_Witness ==
    /\ snap_pc = "once"
    /\ SnapCallValid
    /\ \/ snap_mode = "floor" /\ snap_ts < 0 /\ timestamp(snap_once) < snap_ts
       \/ snap_mode = "ceil" /\ snap_ts > 0 /\ timestamp(snap_once) = snap_ts

(***************************************************************************)
(* C11: in mode nearest the result is the grid point closest to the        *)
(* instant, and an instant exactly half a step from both neighbours goes   *)
(* to the upper one: 21:30 with "1h" gives 22:00, noon with "1d" gives the *)
(* next midnight.                                                          *)
(***************************************************************************)
C11_NearestHalfUp ==
    (snap_pc # "start" /\ SnapCallValid /\ snap_mode = "nearest") =>
        LET r == timestamp(snap_once)
            d == IF r >= snap_ts THEN r - snap_ts ELSE snap_ts - r
        IN  /\ IsDatetime(snap_once)
            /\ r % SnapStepMs = 0
            /\ 2 * d <= SnapStepMs
            /\ 2 * d = SnapStepMs => r > snap_ts

\* noon snapped to the nearest day: a tie, sent to the next midnight
C11_Witness ==
    /\ snap_pc = "once"
    /\ snap_mode = "nearest"
    /\ snap_freq = <<"1", "d">>
    /\ snap_ts = 12 * HourMs
    /\ snap_once = fromtimestamp_utc(24 * HourMs)

(***************************************************************************)
(* SpecParse: snap_to_interval on every frequency string of at most        *)
(* MaxFreqLen characters over FreqAlphabet (and the strings of Freqs).     *)
(***************************************************************************)
FreqAlphabet == {" ", "0", "1", "2", "m", "h", "d", "H", "x", "-", "."}

RECURSIVE StringsUpTo(_)
StringsUpTo(n) ==
    IF n = 0 THEN {<<>>}
    ELSE LET shorter == StringsUpTo(n - 1)
         IN  shorter \cup {Append(t, c) : t \in shorter, c \in FreqAlphabet}

\* three digits with the day unit are left out: their step in ms exceeds the
\* integers of the model checker
FreqStrings ==
    Freqs \cup {t \in StringsUpTo(MaxFreqLen) :
                  \/ Cardinality({i \in 1 .. Len(t) : t[i] \in Digits}) <= 2
                  \/ \A i \in 1 .. Len(t) : t[i] # "d"}

InitParse ==
    /\ EvIdle
    /\ IxIdle
    /\ RsiIdle
    /\ IndIdle
    /\ RdIdle
    /\ BfIdle
    /\ TwIdle
    /\ RepIdle
    /\ snap_pc = "start"
    /\ snap_dt \in {Datetime(36 * HourMs + 1, TRUE, 0), Datetime(12 * HourMs, FALSE, 0)}
    /\ snap_freq \in FreqStrings
    /\ snap_mode \in {"floor", "ceil"}
    /\ snap_once = None
    /\ snap_twice = None
    /\ snap_ts = 0

SpecParse == InitParse /\ [][NextSnap]_vars

\* The grammar, stated on positions: t[1..a] whitespace, t[a+1..b] digits (at
\* least one), t[b+1..c] whitespace, t[c+1] the unit, the rest whitespace.
FreqSplits(t) ==
    {x \in (0 .. Len(t)) \X (0 .. Len(t)) \X (0 .. Len(t)) :
        /\ x[1] < x[2] /\ x[2] <= x[3] /\ x[3] < Len(t)
        /\ \A i \in 1 .. x[1] : t[i] \in Whitespace
        /\ \A i \in (x[1] + 1) .. x[2] : t[i] \in Digits
        /\ \A i \in (x[2] + 1) .. x[3] : t[i] \in Whitespace
        /\ t[x[3] + 1] \in {"m", "h", "d", "M", "H", "D"}
        /\ \A i \in (x[3] + 2) .. Len(t) : t[i] \in Whitespace}

InGrammar(t) == FreqSplits(t) # {}

RECURSIVE Pow10(_)
Pow10(k) == IF k = 0 THEN 1 ELSE 10 * Pow10(k - 1)

RECURSIVE DecimalSum(_, _, _)
\* sum of digit * 10^(place) over t[i .. j]
DecimalSum(t, i, j) ==
    IF i > j THEN 0 ELSE DigitValue(t[i]) * Pow10(j - i) + DecimalSum(t, i + 1, j)

\* seconds denoted by a string of the grammar
GrammarSeconds(t) ==
    LET x == CHOOSE y \in FreqSplits(t) : TRUE
        u == t[x[3] + 1]
    IN  DecimalSum(t, x[1] + 1, x[2]) *
        (CASE u \in {"m", "M"} -> 60 [] u \in {"h", "H"} -> 3600 [] u \in {"d", "D"} -> 86400)

FreqRejected(v) == IsRaised(v) /\ v.err = "ValueError"

(***************************************************************************)
(* C12: the frequency parser accepts exactly the strings made of optional  *)
(* whitespace, a non-negative decimal integer and one unit letter of       *)
(* m, h, d in either case, with m = 60 s, h = 3600 s, d = 86400 s (so "24h"*)
(* snaps as "1d" does); every other string fails with an error and no      *)
(* instant is returned.                                                    *)
(***************************************************************************)
C12_FrequencyGrammar ==
    snap_pc # "start" =>
        /\ ~InGrammar(snap_freq) => (FreqRejected(snap_once) /\ ~IsDatetime(snap_once))
        /\ InGrammar(snap_freq) => ~FreqRejected(snap_once)
        /\ (InGrammar(snap_freq) /\ GrammarSeconds(snap_freq) > 0) =>
              LET step == GrammarSeconds(snap_freq) * 1000
                  r == timestamp(snap_once)
              IN  /\ IsDatetime(snap_once)
                  /\ r % step = 0
                  /\ snap_mode = "floor" => (r <= snap_ts /\ snap_ts < r + step)
                  /\ snap_mode = "ceil" => (snap_ts <= r /\ r < snap_ts + step)

\* "24h" was parsed and took 36:00:00.001 down to the day boundary at 24:00
C12_Witness ==
    /\ snap_pc = "once"
    /\ snap_freq = <<"2", "4", "h">>
    /\ snap_mode = "floor"
    /\ snap_ts = 36 * HourMs + 1
    /\ snap_once = fromtimestamp_utc(24 * HourMs)

(***************************************************************************)
(* CcxtIndicatorService: candle series and the indicator arithmetic.       *)
(*                                                                         *)
(* A candle is [ts_ms, close] (open, high, low and volume are carried by   *)
(* the code and never read).  A row of the provider is [ts, close, ok];    *)
(* ok = FALSE is a row _normalize_ohlcv drops (fewer than 6 fields, or a   *)
(* field int()/float() refuses).  Closes are whole numbers and the float   *)
(* quotients of the code are exact fractions [num, den], den > 0, in       *)
(* lowest terms.                                                           *)
(***************************************************************************)
RECURSIVE Gcd(_, _)
Gcd(a, b) == IF b = 0 THEN a ELSE Gcd(b, a % b)

Abs(x) == IF x < 0 THEN 0 - x ELSE x

\* the fraction n / d, d # 0
Rat(n, d) ==
    LET g == Gcd(Abs(n), Abs(d))
        sgn == IF d < 0 THEN 0 - 1 ELSE 1
    IN  [num |-> sgn * (n \div g), den |-> sgn * (d \div g)]

RatOf(n) == Rat(n, 1)

RatAdd(x, y) == Rat(x.num * y.den + y.num * x.den, x.den * y.den)

RatSub(x, y) == Rat(x.num * y.den - y.num * x.den, x.den * y.den)

RatMul(x, y) == Rat(x.num * y.num, x.den * y.den)

\* x / y, y # 0
RatDiv(x, y) == Rat(x.num * y.den, x.den * y.num)

RatLt(x, y) == x.num * y.den < y.num * x.den

RatLe(x, y) == x.num * y.den <= y.num * x.den

_OHLCV(ts_ms, close) == [ts_ms |-> ts_ms, close |-> close]

Row(ts, close, ok) == [ts |-> ts, close |-> close, ok |-> ok]

\* out.sort(key=ts_ms) is stable: r goes after the candles with ts_ms <= r.ts_ms

\* no sort: the candle stays where the response listed it
insert_by_ts_unsorted(out, r) == Append(out, r)

RECURSIVE insert_by_ts(_, _)
insert_by_ts(out, r) ==
    IF out = <<>> THEN <<r>>
    ELSE IF out[Len(out)].ts_ms <= r.ts_ms THEN Append(out, r)
    ELSE Append(insert_by_ts(SubSeq(out, 1, Len(out) - 1), r), out[Len(out)])

RECURSIVE _normalize_ohlcv(_)
\* lines 307-319
_normalize_ohlcv(rows) ==
    IF rows = <<>> THEN <<>>
    ELSE LET r == rows[Len(rows)]
             out == _normalize_ohlcv(SubSeq(rows, 1, Len(rows) - 1))
         IN  IF r.ok THEN insert_by_ts(out, _OHLCV(r.ts, r.close)) ELSE out

\* the candle a dict built from `cs` in order holds under key ts (the last one)
LastWithTs(cs, ts) ==
    cs[CHOOSE i \in 1 .. Len(cs) :
          cs[i].ts_ms = ts /\ \A j \in (i + 1) .. Len(cs) : cs[j].ts_ms # ts]

TsOf(cs) == {cs[i].ts_ms : i \in 1 .. Len(cs)}

RECURSIVE sorted(_)
\* sorted(keys)
sorted(keys) ==
    IF keys = {} THEN <<>>
    ELSE LET m == CHOOSE k \in keys : \A o \in keys : k <= o
         IN  <<m>> \o sorted(keys \ {m})

\* lines 371-376 (and the same code inline in get_rsi, lines 95-98)
_merge_ohlcv(a, b) ==
    LET keys == sorted(TsOf(a) \cup TsOf(b))
    IN  [k \in 1 .. Len(keys) |->
            IF keys[k] \in TsOf(b) THEN LastWithTs(b, keys[k]) ELSE LastWithTs(a, keys[k])]

\* lines 358-362; positions are those of Python (from 0), None is NoIndex
NoIndex == 0 - 1

_index_of_ts(ohlcv, ts_ms) ==
    IF ts_ms \in TsOf(ohlcv)
    THEN (CHOOSE i \in 1 .. Len(ohlcv) :
             ohlcv[i].ts_ms = ts_ms /\ \A j \in 1 .. (i - 1) : ohlcv[j].ts_ms # ts_ms) - 1
    ELSE NoIndex

RECURSIVE sum(_)
sum(xs) == IF xs = <<>> THEN 0 ELSE xs[1] + sum(Tail(xs))

closes_of(ohlcv) == [i \in 1 .. Len(ohlcv) |-> ohlcv[i].close]

\* closes[start : idx + 1] of Python, positions from 0
Slice(xs, start, stop) == SubSeq(xs, start + 1, stop)

\* the window one candle too long
_sma_at_index_wide(closes, period, idx) ==
    IF idx + 1 < period THEN None
    ELSE Rat(sum(Slice(closes, (IF idx - period < 0 THEN 0 ELSE idx - period), idx + 1)), period)

\* lines 364-369
_sma_at_index(closes, period, idx) ==
    IF idx + 1 < period THEN None
    ELSE Rat(sum(Slice(closes, idx - period + 1, idx + 1)), period)

\* the scan that keeps the first candle at or before the target
_price_at_or_before_first(ohlcv, target_ms) ==
    IF Len(ohlcv) = 0 \/ ohlcv[1].ts_ms > target_ms THEN None
    ELSE [ts |-> ohlcv[1].ts_ms, price |-> ohlcv[1].close]

\* lines 378-390: the last candle of the leading run of candles at or before target
_price_at_or_before(ohlcv, target_ms) ==
    LET run == {i \in 1 .. Len(ohlcv) : \A j \in 1 .. i : ohlcv[j].ts_ms <= target_ms}
    IN  IF run = {} THEN None
        ELSE LET best == CHOOSE i \in run : \A j \in run : j <= i
             IN  [ts |-> ohlcv[best].ts_ms, price |-> ohlcv[best].close]

\* max(x, 0.0)
Max0(x) == IF x > 0 THEN x ELSE 0

\* lines 326-328, positions from 1: changes[k] = closes[k + 1] - closes[k]
changes_of(closes) == [k \in 1 .. (Len(closes) - 1) |-> closes[k + 1] - closes[k]]

gains_of(closes) == [k \in 1 .. (Len(closes) - 1) |-> Max0(changes_of(closes)[k])]

losses_of(closes) == [k \in 1 .. (Len(closes) - 1) |-> Max0(0 - changes_of(closes)[k])]

\* no test for a zero average loss: 100 * ag / (ag + 1) when al = 0
compute_rsi_no_zero_test(ag, al) ==
    LET rs == IF al.num = 0 THEN ag ELSE RatDiv(ag, al)
    IN  RatSub(RatOf(100), RatDiv(RatOf(100), RatAdd(RatOf(1), rs)))

\* lines 336-340
compute_rsi(ag, al) ==
    IF al.num = 0 THEN RatOf(100)
    ELSE LET rs == RatDiv(ag, al)
         IN  RatSub(RatOf(100), RatDiv(RatOf(100), RatAdd(RatOf(1), rs)))

\* lines 348-349: (avg * (period - 1) + x) / period
wilder(avg, x, period) == RatDiv(RatAdd(RatMul(avg, RatOf(period - 1)), RatOf(x)), RatOf(period))

RECURSIVE rsi_loop(_, _, _, _, _, _)
\* lines 345-350, i a position of Python; gains[i - 1] of Python is gains[i] here
rsi_loop(i, avg_gain, avg_loss, rsi, closes, period) ==
    IF i >= Len(closes) THEN rsi
    ELSE LET ag == wilder(avg_gain, gains_of(closes)[i], period)
             al == wilder(avg_loss, losses_of(closes)[i], period)
         IN  rsi_loop(i + 1, ag, al, [rsi EXCEPT ![i + 1] = compute_rsi(ag, al)], closes, period)

\* lines 321-352
_rsi_series(closes, period) ==
    IF Len(closes) < period + 1 THEN [i \in 1 .. Len(closes) |-> None]
    ELSE LET avg_gain == Rat(sum(SubSeq(gains_of(closes), 1, period)), period)
             avg_loss == Rat(sum(SubSeq(losses_of(closes), 1, period)), period)
             rsi == [i \in 1 .. Len(closes) |->
                        IF i = period + 1 THEN compute_rsi(avg_gain, avg_loss) ELSE None]
         IN  rsi_loop(period + 1, avg_gain, avg_loss, rsi, closes, period)

(***************************************************************************)
(* SpecRsi: _rsi_series on every closes series of at most MaxCloses values. *)
(***************************************************************************)
CloseValues == {0, 1, 3}

RECURSIVE SeqsUpTo(_, _)
\* the sequences over S of length at most n
SeqsUpTo(S, n) ==
    IF n = 0 THEN {<<>>}
    ELSE LET shorter == SeqsUpTo(S, n - 1)
         IN  shorter \cup {Append(t, x) : t \in shorter, x \in S}

InitRsi ==
    /\ SnapIdle
    /\ EvIdle
    /\ IxIdle
    /\ IndIdle
    /\ RdIdle
    /\ BfIdle
    /\ TwIdle
    /\ RepIdle
    /\ rsi_pc = "start"
    /\ rsi_closes \in SeqsUpTo(CloseValues, MaxCloses)
    /\ rsi_period \in {1, 2, 3}
    /\ rsi_values = <<>>

RsiSeries ==
    /\ rsi_pc = "start"
    /\ rsi_values' = _rsi_series(rsi_closes, rsi_period)
    /\ rsi_pc' = "done"
    /\ UNCHANGED <<notRsiVars, rsi_closes, rsi_period>>

NextRsi == RsiSeries

SpecRsi == InitRsi /\ [][NextRsi]_vars

(***************************************************************************)
(* C13: for a closes series of at least period + 1 values the Wilder       *)
(* computation gives an RSI at every position from `period` on, each in    *)
(* [0, 100]; where no delta up to a position is negative (the smoothed     *)
(* average loss is exactly 0) the RSI there is exactly 100.                *)
(***************************************************************************)
C13_RsiBounded ==
    (rsi_pc = "done" /\ Len(rsi_closes) >= rsi_period + 1) =>
        /\ Len(rsi_values) = Len(rsi_closes)
        /\ \A i \in 1 .. Len(rsi_values) :
              /\ rsi_values[i] # None <=> i > rsi_period
              /\ i > rsi_period =>
                    /\ RatLe(RatOf(0), rsi_values[i])
                    /\ RatLe(rsi_values[i], RatOf(100))
                    /\ (\A k \in 1 .. (i - 1) : rsi_closes[k + 1] >= rsi_closes[k]) =>
                          rsi_values[i] = RatOf(100)

\* two rising closes give 100, the fall that follows brings the RSI inside (0, 100)
C13_Witness ==
    /\ rsi_pc = "done"
    /\ rsi_period = 2
    /\ Len(rsi_values) = 4
    /\ rsi_values[3] = RatOf(100)
    /\ RatLt(RatOf(0), rsi_values[4])
    /\ RatLt(rsi_values[4], RatOf(100))

(***************************************************************************)
(* CcxtIndicatorService: one call of get_rsi, get_sma, get_sma_cross or    *)
(* get_price_change, from its argument checks to its result.               *)
(*                                                                         *)
(* A call is [op, at, end, timeframe, period, slow_period]: `at` is `start`*)
(* for get_price_change, `period` is fast_period for get_sma_cross.        *)
(***************************************************************************)
Call(op, at, end, timeframe, period, slow_period) ==
    [op |-> op, at |-> at, end |-> end, timeframe |-> timeframe, period |-> period,
     slow_period |-> slow_period]

\* the checks made before the market is looked up: None, or the exception
args_check(call) ==
    CASE call.op \in {"get_rsi", "get_sma"} ->                          \* 56-58, 198-200
            IF ~require_utc(call.at) THEN Raised("ValueError", "at must be timezone-aware UTC")
            ELSE IF call.period <= 0 THEN Raised("ValueError", "period must be positive")
            ELSE None
      [] call.op = "get_sma_cross" ->                                   \* 247-251
            IF ~require_utc(call.at) THEN Raised("ValueError", "at must be timezone-aware UTC")
            ELSE IF call.period <= 0 \/ call.slow_period <= 0
            THEN Raised("ValueError", "periods must be positive")
            ELSE IF call.period >= call.slow_period
            THEN Raised("ValueError", "fast_period must be less than slow_period")
            ELSE None
      [] call.op = "get_price_change" ->                                \* 131-134
            IF ~require_utc(call.at) THEN Raised("ValueError", "start must be timezone-aware UTC")
            ELSE IF ~require_utc(call.end)
            THEN Raised("ValueError", "end must be timezone-aware UTC")
            ELSE IF timestamp(call.end) <= timestamp(call.at)
            THEN Raised("ValueError", "end must be greater than start")
            ELSE None

LoadMarkets == [req |-> "load_markets", since |-> 0, limit |-> 0]

FetchOhlcv(since, limit) == [req |-> "fetch_ohlcv", since |-> since, limit |-> limit]

\* the reload made whether or not the symbol is in the cache
market_check_always_reloads(in_markets, listed) ==
    [io |-> <<LoadMarkets>>, known |-> listed]

\* lines 62-66 (138-141, 204-207, 255-258): the requests issued and whether the
\* call goes on; `listed` is what a reload finds
market_check(in_markets, listed) ==
    IF in_markets THEN [io |-> <<>>, known |-> TRUE]
    ELSE [io |-> <<LoadMarkets>>, known |-> listed]

\* frame_ms and the target candle(s) of a call whose arguments and market passed
resolve_target(call) ==
    CASE call.op = "get_rsi" -> get_rsi_target(call.at, call.timeframe, call.period, TRUE)
      [] call.op = "get_sma" -> get_sma_target(call.at, call.timeframe, call.period, TRUE)
      [] call.op = "get_sma_cross" ->
            get_sma_cross_target(call.at, call.timeframe, call.period, call.slow_period, TRUE)
      [] call.op = "get_price_change" ->
            get_price_change_targets(call.at, call.end, call.timeframe, TRUE)

\* the candle whose presence in the first fetch is tested
anchor_ms(targets) == targets[Len(targets)].target_ms

\* the first fetch_ohlcv request
first_request(call, targets) ==
    LET frame_ms == targets[1].frame_ms
        target_ms == targets[1].target_ms
    IN  CASE call.op = "get_rsi" ->                                     \* 78-82
                FetchOhlcv(target_ms - (call.period * 3) * frame_ms, call.period * 3 + 2)
          [] call.op = "get_sma" ->                                     \* 213-217
                FetchOhlcv(target_ms - (call.period - 1) * frame_ms, call.period + 2)
          [] call.op = "get_sma_cross" ->                               \* 265-269
                FetchOhlcv(target_ms - ((call.slow_period + 1) - 1) * frame_ms,
                           (call.slow_period + 1) + 3)
          [] call.op = "get_price_change" ->                            \* 154-157
                LET since_ms == IF target_ms - 2 * frame_ms > 0
                                THEN target_ms - 2 * frame_ms ELSE 0
                IN  FetchOhlcv(since_ms,
                               ((targets[2].target_ms - since_ms) \div frame_ms) + 2 + 2)

\* the corrective fetch asked from the start of the first window
more_request_from_since(call, targets) == first_request(call, targets)

\* the corrective fetch_ohlcv request
more_request(call, targets) ==
    CASE call.op \in {"get_rsi", "get_sma"} ->                          \* 92, 220
            FetchOhlcv(anchor_ms(targets), call.period + 2)
      [] call.op = "get_sma_cross" -> FetchOhlcv(anchor_ms(targets), call.slow_period + 3)   \* 272
      [] call.op = "get_price_change" -> FetchOhlcv(anchor_ms(targets), 3)                   \* 162

Value(v) == [value |-> v]

\* the fallback taking the latest timestamp with an RSI, after the target or not
get_rsi_value_latest(ohlcv, period, target_ms) ==
    LET rsi_vals == _rsi_series(closes_of(ohlcv), period)
        have == {i \in 1 .. Len(ohlcv) : rsi_vals[i] # None}
        keys == {ohlcv[i].ts_ms : i \in have}
        ts_to_rsi(ts) ==
            rsi_vals[CHOOSE i \in have :
                          ohlcv[i].ts_ms = ts /\ \A j \in have : ohlcv[j].ts_ms = ts => j <= i]
    IN  IF have = {} THEN Raised("ValueError", "Insufficient data to compute RSI")
        ELSE IF target_ms \in keys THEN Value(ts_to_rsi(target_ms))
        ELSE Value(ts_to_rsi(CHOOSE ts \in keys : \A o \in keys : o <= ts))

\* lines 100-120: the RSI mapped to the target, or to the closest earlier timestamp
get_rsi_value(ohlcv, period, target_ms) ==
    LET rsi_vals == _rsi_series(closes_of(ohlcv), period)
        have == {i \in 1 .. Len(ohlcv) : rsi_vals[i] # None}
        keys == {ohlcv[i].ts_ms : i \in have}
        \* ts_to_rsi[ts]: the dict keeps the last position written under ts
        ts_to_rsi(ts) ==
            rsi_vals[CHOOSE i \in have :
                          ohlcv[i].ts_ms = ts /\ \A j \in have : ohlcv[j].ts_ms = ts => j <= i]
        prior_ts == {ts \in keys : ts <= target_ms}
    IN  IF have = {} THEN Raised("ValueError", "Insufficient data to compute RSI")
        ELSE IF target_ms \in keys THEN Value(ts_to_rsi(target_ms))
        ELSE IF prior_ts = {} THEN Raised("ValueError", "RSI not available for the requested time")
        ELSE Value(ts_to_rsi(CHOOSE ts \in prior_ts : \A o \in prior_ts : o <= ts))

\* lines 223-233
get_sma_value(ohlcv, period, target_ms) ==
    LET idx == _index_of_ts(ohlcv, target_ms)
    IN  IF idx = NoIndex \/ idx + 1 < period
        THEN Raised("ValueError", "Insufficient data to compute SMA")
        ELSE LET sma == _sma_at_index(closes_of(ohlcv), period, idx)
             IN  IF sma = None THEN Raised("ValueError", "SMA not available for the requested time")
                 ELSE Value(sma)

SMACrossDTO(fast, slow, prev_fast, prev_slow, crossed) ==
    [fast |-> fast, slow |-> slow, prev_fast |-> prev_fast, prev_slow |-> prev_slow,
     crossed |-> crossed]

\* both comparisons of the bullish test strict
classify_strict(fast_prev, slow_prev, fast_curr, slow_curr) ==
    IF RatLt(fast_prev, slow_prev) /\ RatLt(slow_curr, fast_curr) THEN "bullish"
    ELSE IF RatLt(slow_prev, fast_prev) /\ RatLe(fast_curr, slow_curr) THEN "bearish"
    ELSE "none"

\* lines 288-294; "none" is crossed = None
classify(fast_prev, slow_prev, fast_curr, slow_curr) ==
    IF RatLt(fast_prev, slow_prev) /\ RatLe(slow_curr, fast_curr) THEN "bullish"
    ELSE IF RatLt(slow_prev, fast_prev) /\ RatLe(fast_curr, slow_curr) THEN "bearish"
    ELSE "none"

\* lines 275-304
get_sma_cross_value(ohlcv, fast_period, slow_period, target_ms) ==
    LET idx == _index_of_ts(ohlcv, target_ms)
        closes == closes_of(ohlcv)
    IN  IF idx = NoIndex \/ idx < slow_period
        THEN Raised("ValueError", "Insufficient data to compute SMA cross")
        ELSE LET fast_curr == _sma_at_index(closes, fast_period, idx)
                 slow_curr == _sma_at_index(closes, slow_period, idx)
                 fast_prev == _sma_at_index(closes, fast_period, idx - 1)
                 slow_prev == _sma_at_index(closes, slow_period, idx - 1)
             IN  IF None \in {fast_curr, slow_curr, fast_prev, slow_prev}
                 THEN Raised("ValueError", "Insufficient data to compute SMA cross")
                 ELSE SMACrossDTO(fast_curr, slow_curr, fast_prev, slow_prev,
                                  classify(fast_prev, slow_prev, fast_curr, slow_curr))

PriceChangeDTO(start_ts, end_ts, start_price, end_price, abs_change, pct_change) ==
    [start_ts |-> start_ts, end_ts |-> end_ts, start_price |-> start_price,
     end_price |-> end_price, abs_change |-> abs_change, pct_change |-> pct_change]

\* the change taken relative to the end price
pct_change_of_end(start_price, end_price) ==
    IF end_price # 0
    THEN RatMul(Rat(end_price - start_price, end_price), RatOf(100))
    ELSE RatOf(0)

\* lines 175-176
pct_change_of(start_price, end_price) ==
    IF start_price # 0
    THEN RatMul(Rat(end_price - start_price, start_price), RatOf(100))
    ELSE RatOf(0)

\* lines 166-187
get_price_change_value(ohlcv, start_target, end_target) ==
    LET start_point == _price_at_or_before(ohlcv, start_target)
        end_point == _price_at_or_before(ohlcv, end_target)
    IN  IF start_point = None \/ end_point = None
        THEN Raised("ValueError", "Insufficient OHLCV data to compute price change")
        ELSE PriceChangeDTO(fromtimestamp_utc(start_point.ts), fromtimestamp_utc(end_point.ts),
                            start_point.price, end_point.price,
                            end_point.price - start_point.price,
                            pct_change_of(start_point.price, end_point.price))

\* the indicator computed on the series
compute(call, targets, ohlcv) ==
    CASE call.op = "get_rsi" -> get_rsi_value(ohlcv, call.period, targets[1].target_ms)
      [] call.op = "get_sma" -> get_sma_value(ohlcv, call.period, targets[1].target_ms)
      [] call.op = "get_sma_cross" ->
            get_sma_cross_value(ohlcv, call.period, call.slow_period, targets[1].target_ms)
      [] call.op = "get_price_change" ->
            get_price_change_value(ohlcv, targets[1].target_ms, targets[2].target_ms)

(***************************************************************************)
(* SpecIndicator: one call, with an exchange that answers a fetch with any *)
(* rows it likes, in any order.                                            *)
(***************************************************************************)
Tf1h == <<"1", "h">>

IndAt == Utc(3 * HourMs)

BadInstants == {Datetime(3 * HourMs, FALSE, 0), Datetime(3 * HourMs, TRUE, HourMs)}

BadTimeframes == {<<"1", "x">>, <<"h">>, <<"0", "m">>}

IndCalls ==
    \* calls that pass every check
    {Call("get_rsi", IndAt, None, Tf1h, p, 0) : p \in {1, 2}}
    \cup {Call("get_sma", IndAt, None, Tf1h, p, 0) : p \in {2, 3}}
    \cup {Call("get_sma_cross", IndAt, None, Tf1h, 1, 2)}
    \cup {Call("get_price_change", IndAt, Utc(4 * HourMs), Tf1h, 0, 0)}
    \* calls with an argument the checks refuse
    \cup {Call(op, at, None, Tf1h, 2, 0) : op \in {"get_rsi", "get_sma"}, at \in BadInstants}
    \cup {Call(op, IndAt, None, Tf1h, 0, 0) : op \in {"get_rsi", "get_sma"}}
    \cup {Call(op, IndAt, None, tf, 2, 0) : op \in {"get_rsi", "get_sma"}, tf \in BadTimeframes}
    \cup {Call("get_sma_cross", at, None, Tf1h, 1, 2) : at \in BadInstants}
    \cup {Call("get_sma_cross", IndAt, None, Tf1h, f, 2) : f \in {0, 2, 3}}
    \cup {Call("get_sma_cross", IndAt, None, tf, 1, 2) : tf \in BadTimeframes}
    \cup {Call("get_price_change", at, Utc(4 * HourMs), Tf1h, 0, 0) : at \in BadInstants}
    \cup {Call("get_price_change", IndAt, end, Tf1h, 0, 0) :
              end \in {Utc(3 * HourMs), Utc(2 * HourMs), Datetime(4 * HourMs, FALSE, 0)}}
    \cup {Call("get_price_change", IndAt, Utc(4 * HourMs), tf, 0, 0) : tf \in BadTimeframes}

\* candles of 00:00, 01:00 and 02:00 (the target of a call at 03:00), one of
\* 03:00, and a row that does not convert
IndRows ==
    {Row(k * HourMs, c, TRUE) : k \in 0 .. 2, c \in {0, 1, 2}}
    \cup {Row(3 * HourMs, 2, TRUE), Row(0, 0, FALSE)}

FirstFetches == SeqsUpTo(IndRows, MaxRows)

MoreFetches == {
    <<>>,
    <<Row(2 * HourMs, 1, TRUE)>>,
    <<Row(3 * HourMs, 2, TRUE), Row(2 * HourMs, 0, TRUE)>>,
    <<Row(HourMs, 2, TRUE), Row(2 * HourMs, 2, TRUE), Row(2 * HourMs, 1, TRUE)>>,
    <<Row(3 * HourMs, 1, TRUE), Row(0, 0, FALSE)>>,
    <<Row(2 * HourMs, 100, TRUE), Row(3 * HourMs, 110, TRUE)>>
}

InitIndicator ==
    /\ SnapIdle
    /\ EvIdle
    /\ IxIdle
    /\ RsiIdle
    /\ RdIdle
    /\ BfIdle
    /\ TwIdle
    /\ RepIdle
    /\ ind_pc = "start"
    /\ ind_call \in IndCalls
    /\ ind_markets \in BOOLEAN
    /\ ind_io = <<>>
    /\ ind_target = <<>>
    /\ ind_raw = <<>>
    /\ ind_more = <<>>
    /\ ind_ohlcv = <<>>
    /\ ind_result = None

\* the call ends with `out`
IndEnd(out) ==
    /\ ind_pc' = IF IsRaised(out) THEN "raised" ELSE "returned"
    /\ ind_result' = out

\* the checks on the arguments that open each operation
IndArgs ==
    /\ ind_pc = "start"
    /\ IF args_check(ind_call) # None
       THEN IndEnd(args_check(ind_call))
       ELSE ind_pc' = "market" /\ ind_result' = ind_result
    /\ UNCHANGED <<notIndVars, ind_call, ind_markets, ind_io, ind_target, ind_raw, ind_more,
                   ind_ohlcv>>

\* the market check, the timeframe and the target, up to the first fetch request
IndMarketWith(listings) ==
    /\ ind_pc = "market"
    /\ \E listed \in listings :
          LET m == market_check(ind_markets, listed)
              t == resolve_target(ind_call)
          IN  /\ ind_markets' = m.known
              /\ IF ~m.known
                 THEN IndEnd(MarketNotFound) /\ ind_io' = ind_io \o m.io
                                            /\ ind_target' = ind_target
                 ELSE IF IsRaised(t)
                 THEN IndEnd(t) /\ ind_io' = ind_io \o m.io /\ ind_target' = ind_target
                 ELSE /\ ind_pc' = "fetch"
                      /\ ind_result' = ind_result
                      /\ ind_target' = t.targets
                      /\ ind_io' = (ind_io \o m.io) \o <<first_request(ind_call, t.targets)>>
    /\ UNCHANGED <<notIndVars, ind_call, ind_raw, ind_more, ind_ohlcv>>

\* the first fetch returns: normalise, then compute or ask for the corrective fetch
IndFetchFrom(responses) ==
    /\ ind_pc = "fetch"
    /\ \E raw \in responses :
          LET ohlcv == _normalize_ohlcv(raw)
          IN  /\ ind_raw' = raw
              /\ ind_ohlcv' = ohlcv
              /\ IF ind_call.op = "get_rsi" /\ ohlcv = <<>>              \* 84-85
                 THEN IndEnd(Raised("ValueError", "No OHLCV data returned")) /\ ind_io' = ind_io
                 ELSE IF anchor_ms(ind_target) \notin TsOf(ohlcv)
                 THEN /\ ind_pc' = "more"
                      /\ ind_result' = ind_result
                      /\ ind_io' = Append(ind_io, more_request(ind_call, ind_target))
                 ELSE IndEnd(compute(ind_call, ind_target, ohlcv)) /\ ind_io' = ind_io
    /\ UNCHANGED <<notIndVars, ind_call, ind_markets, ind_target, ind_more>>

\* the corrective fetch returns: merge, then compute
IndMoreFrom(responses) ==
    /\ ind_pc = "more"
    /\ \E more \in responses :
          LET ohlcv == _merge_ohlcv(ind_ohlcv, _normalize_ohlcv(more))
          IN  /\ ind_more' = more
              /\ ind_ohlcv' = ohlcv
              /\ IndEnd(compute(ind_call, ind_target, ohlcv))
    /\ UNCHANGED <<notIndVars, ind_call, ind_markets, ind_io, ind_target, ind_raw>>

\* an exchange that lists the symbol or not, and answers a fetch as it likes
IndMarket == IndMarketWith(BOOLEAN)

IndFetch == IndFetchFrom(FirstFetches)

IndMore == IndMoreFrom(MoreFetches)

NextIndicator == IndArgs \/ IndMarket \/ IndFetch \/ IndMore

SpecIndicator == InitIndicator /\ [][NextIndicator]_vars

\* the call got as far as computing its indicator on ind_ohlcv
IndComputed == ind_pc \in {"returned", "raised"} /\ ind_target # <<>>

\* timestamps of the series at or before ts
TsUpTo(cs, ts) == {k \in TsOf(cs) : k <= ts}

\* the n latest timestamps of K (all of K when it has fewer)
Latest(K, n) == {k \in K : Cardinality({o \in K : o > k}) < n}

\* closes the series holds for timestamp k
ClosesAt(cs, k) == {cs[i].close : i \in {j \in 1 .. Len(cs) : cs[j].ts_ms = k}}

RECURSIVE SumOver(_, _)
\* sum of f[k] over k in K
SumOver(f, K) ==
    IF K = {} THEN 0 ELSE LET k == CHOOSE x \in K : TRUE IN f[k] + SumOver(f, K \ {k})

\* mean of the n closes of the series ending at position pos (from 1)
MeanEnding(cs, n, pos) ==
    Rat(SumOver([k \in 1 .. Len(cs) |-> cs[k].close], (pos - n + 1) .. pos), n)

\* position (from 1) of the first candle of the series with timestamp ts, 0 when none
PosOf(cs, ts) ==
    IF ts \in TsOf(cs)
    THEN CHOOSE i \in 1 .. Len(cs) : cs[i].ts_ms = ts /\ \A j \in 1 .. (i - 1) : cs[j].ts_ms # ts
    ELSE 0

\* the series of the call holds one candle per timestamp
IndNoDuplicates ==
    \A i, j \in 1 .. Len(ind_ohlcv) : i # j => ind_ohlcv[i].ts_ms # ind_ohlcv[j].ts_ms

(***************************************************************************)
(* C14: when get_sma succeeds its result is the arithmetic mean of the     *)
(* closes of the `period` candles of the fetched series that end at the    *)
(* target candle, and no close outside those candles changes it; it fails  *)
(* when the target candle is absent or fewer than `period` candles of the  *)
(* series precede or include it.  On a series with one candle per          *)
(* timestamp those candles are the `period` latest timestamps up to the    *)
(* target.                                                                 *)
(***************************************************************************)
C14_SmaMeanOfPeriodCandles ==
    (IndComputed /\ ind_call.op = "get_sma") =>
        LET target_ms == ind_target[1].target_ms
            period == ind_call.period
            pos == PosOf(ind_ohlcv, target_ms)
            window == Latest(TsUpTo(ind_ohlcv, target_ms), period)
        IN  /\ (pos = 0 \/ pos < period) =>
                  ind_result = Raised("ValueError", "Insufficient data to compute SMA")
            /\ ind_pc = "returned" =>
                  /\ pos >= period
                  /\ ind_result = Value(MeanEnding(ind_ohlcv, period, pos))
                  /\ \A i \in 1 .. Len(ind_ohlcv) : \A c \in 0 .. 2 :
                        i \notin (pos - period + 1) .. pos =>
                            get_sma_value([ind_ohlcv EXCEPT ![i].close = c], period, target_ms)
                                = ind_result
                  /\ IndNoDuplicates =>
                        /\ Cardinality(window) = period
                        /\ window = {ind_ohlcv[i].ts_ms : i \in (pos - period + 1) .. pos}

\* SMA(2) over 01:00 and 02:00 with different closes; the candle of 03:00 is in
\* the series and outside the window
C14_Witness ==
    /\ ind_pc = "returned"
    /\ ind_call.op = "get_sma"
    /\ ind_call.period = 2
    /\ Len(ind_ohlcv) = 3
    /\ ind_ohlcv[3].ts_ms > ind_target[1].target_ms
    /\ ind_result = Value(Rat(3, 2))

(***************************************************************************)
(* C15: get_sma_cross returns SMA(fast) and SMA(slow) at the target candle *)
(* and at the candle before it, with crossed = "bullish" exactly when      *)
(* fast_prev < slow_prev and fast_curr >= slow_curr, "bearish" exactly     *)
(* when fast_prev > slow_prev and fast_curr <= slow_curr, and absent       *)
(* otherwise; fast_prev = slow_prev never gives a cross.                   *)
(***************************************************************************)
C15_CrossClassification ==
    (ind_pc = "returned" /\ ind_call.op = "get_sma_cross") =>
        LET r == ind_result
            pos == PosOf(ind_ohlcv, ind_target[1].target_ms)
        IN  /\ pos > ind_call.slow_period
            /\ r.fast = MeanEnding(ind_ohlcv, ind_call.period, pos)
            /\ r.slow = MeanEnding(ind_ohlcv, ind_call.slow_period, pos)
            /\ r.prev_fast = MeanEnding(ind_ohlcv, ind_call.period, pos - 1)
            /\ r.prev_slow = MeanEnding(ind_ohlcv, ind_call.slow_period, pos - 1)
            /\ r.crossed = "bullish" <=>
                  (RatLt(r.prev_fast, r.prev_slow) /\ ~RatLt(r.fast, r.slow))
            /\ r.crossed = "bearish" <=>
                  (RatLt(r.prev_slow, r.prev_fast) /\ ~RatLt(r.slow, r.fast))
            /\ r.crossed \in {"bullish", "bearish", "none"}
            /\ r.prev_fast = r.prev_slow => r.crossed = "none"

\* fast came from below and only reached slow: still a bullish cross
C15_Witness ==
    /\ ind_pc = "returned"
    /\ ind_call.op = "get_sma_cross"
    /\ RatLt(ind_result.prev_fast, ind_result.prev_slow)
    /\ ind_result.fast = ind_result.slow
    /\ ind_result.crossed = "bullish"

(***************************************************************************)
(* C16: get_price_change returns abs_change = end_price - start_price and  *)
(* pct_change = (end_price - start_price) / start_price * 100 when         *)
(* start_price # 0, and pct_change = 0 when start_price = 0; start 100 and *)
(* end 110 give 10.                                                        *)
(***************************************************************************)
C16_PriceChangeArithmetic ==
    (ind_pc = "returned" /\ ind_call.op = "get_price_change") =>
        LET r == ind_result
        IN  /\ r.abs_change = r.end_price - r.start_price
            /\ r.start_price # 0 =>
                  r.pct_change.num * r.start_price
                      = (r.end_price - r.start_price) * 100 * r.pct_change.den
            /\ r.start_price = 0 => r.pct_change = RatOf(0)
            /\ (r.start_price = 100 /\ r.end_price = 110) => r.pct_change = RatOf(10)

\* a start price of 0 with another end price: no division, pct_change 0
C16_Witness ==
    /\ ind_pc = "returned"
    /\ ind_call.op = "get_price_change"
    /\ ind_result.start_price = 0
    /\ ind_result.end_price = 2
    /\ ind_result.pct_change = RatOf(0)

\* start 100 and end 110 give 10
C16_Example ==
    /\ ind_pc = "returned"
    /\ ind_call.op = "get_price_change"
    /\ ind_result.start_price = 100
    /\ ind_result.end_price = 110
    /\ ind_result.pct_change = RatOf(10)

\* rows of the two fetches that _normalize_ohlcv keeps
FetchedTs == {ind_raw[i].ts : i \in {j \in 1 .. Len(ind_raw) : ind_raw[j].ok}}
             \cup {ind_more[i].ts : i \in {j \in 1 .. Len(ind_more) : ind_more[j].ok}}

(***************************************************************************)
(* C17: get_price_change resolves the start and the end target each from   *)
(* its own bound and takes, for each, the close of the candle with the     *)
(* greatest timestamp <= that target among the fetched (and merged)        *)
(* candles, exact match or not; it fails with the insufficient-data error  *)
(* exactly when no fetched candle lies at or before one of the two targets.*)
(***************************************************************************)
C17_PriceAtOrBefore ==
    (IndComputed /\ ind_call.op = "get_price_change") =>
        LET start_target == ind_target[1].target_ms
            end_target == ind_target[2].target_ms
            before_start == {k \in FetchedTs : k <= start_target}
            before_end == {k \in FetchedTs : k <= end_target}
            best(K) == CHOOSE k \in K : \A o \in K : o <= k
            r == ind_result
        IN  /\ ind_target[1].t_ms = to_ms(ind_call.at)
            /\ ind_target[2].t_ms = to_ms(ind_call.end)
            /\ ind_pc = "raised" <=> (before_start = {} \/ before_end = {})
            /\ ind_pc = "raised" =>
                  ind_result = Raised("ValueError", "Insufficient OHLCV data to compute price change")
            /\ ind_pc = "returned" =>
                  /\ timestamp(r.start_ts) = best(before_start)
                  /\ timestamp(r.end_ts) = best(before_end)
                  /\ r.start_price \in ClosesAt(ind_ohlcv, best(before_start))
                  /\ r.end_price \in ClosesAt(ind_ohlcv, best(before_end))

\* the start target candle was not fetched and the end one came with the
\* corrective fetch: the start price is that of an earlier candle
C17_Witness ==
    /\ ind_pc = "returned"
    /\ ind_call.op = "get_price_change"
    /\ ind_more # <<>>
    /\ timestamp(ind_result.start_ts) < ind_target[1].target_ms
    /\ timestamp(ind_result.end_ts) = ind_target[2].target_ms

\* the call was given an argument the operation must refuse
InvalidArguments(call) == args_check(call) # None \/ call.timeframe \in BadTimeframes

Requests(kind) == {i \in 1 .. Len(ind_io) : ind_io[i].req = kind}

(***************************************************************************)
(* C18: in the four operations every invalid-argument error (naive or      *)
(* non-UTC instant, non-positive period, fast_period >= slow_period,       *)
(* end <= start, malformed timeframe) is raised before any I/O: when it is *)
(* raised no market reload and no candle fetch has been issued.            *)
(***************************************************************************)
C18_ArgumentErrorsBeforeIO ==
    (ind_pc = "raised" /\ InvalidArguments(ind_call) /\ ind_result # MarketNotFound) =>
        ind_io = <<>>

\* the part of C18 that the code keeps: the errors of the checks that open the
\* operation (instants, periods, end <= start) come before any request
ArgsCheckedBeforeIO ==
    (ind_pc = "raised" /\ args_check(ind_call) # None) =>
        (ind_io = <<>> /\ ind_result = args_check(ind_call))

(***************************************************************************)
(* C19: the market check of every operation allows exactly one cache       *)
(* refresh: a symbol in the market cache causes no reload; otherwise       *)
(* exactly one forced reload is issued, after which the call goes on if    *)
(* the symbol is now known and fails with the unknown-market error,        *)
(* without fetching any candle, if it is not.                              *)
(***************************************************************************)
C19_OneMarketReload ==
    /\ [][ind_pc = "market" =>
            /\ ind_markets =>
                  /\ Requests("load_markets")' = {}
                  /\ ind_result' # MarketNotFound
            /\ ~ind_markets =>
                  /\ Len(ind_io') >= 1 /\ ind_io'[1] = LoadMarkets
                  /\ Cardinality(Requests("load_markets")') = 1
                  /\ ind_markets' => ind_result' # MarketNotFound
                  /\ ~ind_markets' =>
                        /\ ind_pc' = "raised"
                        /\ ind_result' = MarketNotFound
                        /\ Requests("fetch_ohlcv")' = {}]_vars
    /\ [](/\ Cardinality(Requests("load_markets")) <= 1
          /\ ind_result = MarketNotFound => Requests("fetch_ohlcv") = {}
          /\ ind_pc \in {"start", "market"} => ind_io = <<>>)

\* the symbol was not cached, one reload found it and the first fetch was issued
C19_Witness ==
    /\ ind_pc = "fetch"
    /\ Len(ind_io) = 2
    /\ ind_io[1] = LoadMarkets
    /\ ind_io[2].req = "fetch_ohlcv"
    /\ ind_markets

(***************************************************************************)
(* C20: the candle series every indicator is computed on is deduplicated   *)
(* by timestamp and sorted by timestamp ascending, whatever order and      *)
(* duplicates the provider returns and whether or not a corrective fetch   *)
(* was merged; for a timestamp both fetches returned, the candle of the    *)
(* later fetch is the one kept.                                            *)
(***************************************************************************)
C20_SeriesDedupSorted ==
    IndComputed =>
        /\ \A i, j \in 1 .. Len(ind_ohlcv) : i < j => ind_ohlcv[i].ts_ms < ind_ohlcv[j].ts_ms
        /\ \A i \in 1 .. Len(ind_ohlcv) :
              LET later == {k \in 1 .. Len(ind_more) :
                              ind_more[k].ok /\ ind_more[k].ts = ind_ohlcv[i].ts_ms}
              IN  later # {} => \E k \in later : ind_more[k].close = ind_ohlcv[i].close

\* the parts of C20 that the code keeps: the series is sorted (not strictly), a
\* merged series has one candle per timestamp, and the later fetch wins
SeriesSortedAndMergeDedups ==
    IndComputed =>
        /\ \A i, j \in 1 .. Len(ind_ohlcv) : i < j => ind_ohlcv[i].ts_ms <= ind_ohlcv[j].ts_ms
        /\ Requests("fetch_ohlcv") # {} /\ Cardinality(Requests("fetch_ohlcv")) = 2 => IndNoDuplicates
        /\ \A i \in 1 .. Len(ind_ohlcv) :
              LET later == {k \in 1 .. Len(ind_more) :
                              ind_more[k].ok /\ ind_more[k].ts = ind_ohlcv[i].ts_ms}
              IN  later # {} => \E k \in later : ind_more[k].close = ind_ohlcv[i].close

(***************************************************************************)
(* C27: every frequency string the parser accepts has a positive step, so  *)
(* snap_to_interval returns an instant on the grid in every mode; no       *)
(* accepted frequency (one whose integer part is 0, say) makes snapping    *)
(* fail with an arithmetic error.                                          *)
(***************************************************************************)
C27_AcceptedFrequencySnaps ==
    (snap_pc # "start" /\ InGrammar(snap_freq) /\ snap_mode \in Modes) =>
        /\ GrammarSeconds(snap_freq) > 0
        /\ IsDatetime(snap_once)
        /\ timestamp(snap_once) % (GrammarSeconds(snap_freq) * 1000) = 0

(***************************************************************************)
(* C28: EvaluateRound.run never changes the round it was given, and the    *)
(* evaluation it returns and the evaluation it hands to save_evaluation    *)
(* hold that same round: its key and its window_start and window_end as    *)
(* given, not the snapped window the observations were listed with.        *)
(***************************************************************************)
C28_RoundPassedThrough ==
    /\ [][ev_round' = ev_round]_vars
    /\ [](/\ ev_pc = "returned" => ev_result.round = ev_round
          /\ \A k \in 1 .. Len(ev_saved) : ev_saved[k].round = ev_round
          /\ \A k \in 1 .. Len(ev_calls) :
                ev_calls[k].op = "save_evaluation" => ev_calls[k].evaluation.round = ev_round)

\* an evaluation was saved and returned for a round whose window is off the grid
C28_Witness ==
    /\ ev_pc = "returned"
    /\ ev_saved # <<>>
    /\ ev_snapped # None
    /\ ev_snapped.snapped_start # ev_round.window_start
    /\ ev_snapped.snapped_end # ev_round.window_end
    /\ ev_result.round.window_end = ev_round.window_end

\* timestamps of the series whose candle has an RSI value for the period
RsiTs(cs, period) ==
    LET vals == _rsi_series(closes_of(cs), period)
    IN  {cs[i].ts_ms : i \in {j \in 1 .. Len(cs) : vals[j] # None}}

\* the RSI values the series has at timestamp ts
RsiAt(cs, period, ts) ==
    LET vals == _rsi_series(closes_of(cs), period)
    IN  {vals[i] : i \in {j \in 1 .. Len(cs) : cs[j].ts_ms = ts /\ vals[j] # None}}

(***************************************************************************)
(* C25: get_rsi returns the RSI of the target candle when the series has   *)
(* an RSI value at the target timestamp; otherwise the RSI at the greatest *)
(* timestamp <= target that has an RSI value; it fails with an             *)
(* insufficient-data error exactly when no timestamp <= target has one.    *)
(* It never returns the RSI of a candle after the target.                  *)
(***************************************************************************)
C25_RsiAtOrBeforeTarget ==
    (IndComputed /\ ind_call.op = "get_rsi") =>
        LET target_ms == ind_target[1].target_ms
            upto == {ts \in RsiTs(ind_ohlcv, ind_call.period) : ts <= target_ms}
            chosen == CHOOSE ts \in upto : \A o \in upto : o <= ts
        IN  /\ ind_pc = "returned" <=> upto # {}
            /\ ind_pc = "returned" =>
                  ind_result.value \in RsiAt(ind_ohlcv, ind_call.period, chosen)
            /\ ind_pc = "raised" =>
                  /\ ind_result.err = "ValueError"
                  /\ ind_result.msg \in {"No OHLCV data returned",
                                         "Insufficient data to compute RSI",
                                         "RSI not available for the requested time"}

\* the target has no RSI, a later candle has one, and the call returned the earlier one
C25_Witness ==
    /\ IndComputed
    /\ ind_call.op = "get_rsi"
    /\ ind_pc = "returned"
    /\ ind_target[1].target_ms \notin RsiTs(ind_ohlcv, ind_call.period)
    /\ \E ts \in RsiTs(ind_ohlcv, ind_call.period) : ts > ind_target[1].target_ms

\* no candle at or before the target has an RSI while a later one has: the call fails
C25_WitnessRaised ==
    /\ IndComputed
    /\ ind_call.op = "get_rsi"
    /\ ind_pc = "raised"
    /\ \E ts \in RsiTs(ind_ohlcv, ind_call.period) : ts > ind_target[1].target_ms

\* timestamps of the well-formed rows of the first and of the corrective response
FirstTs == {ind_raw[i].ts : i \in {j \in 1 .. Len(ind_raw) : ind_raw[j].ok}}

MoreTs == {ind_more[i].ts : i \in {j \in 1 .. Len(ind_more) : ind_more[j].ok}}

\* a get_rsi call whose first fetch has returned
RsiFetched ==
    /\ ind_call.op = "get_rsi"
    /\ ind_pc \in {"more", "returned", "raised"}
    /\ Requests("fetch_ohlcv") # {}

\* the fetch requests of the call, in order
FetchRequests == SelectSeq(ind_io, LAMBDA r : r.req = "fetch_ohlcv")

(***************************************************************************)
(* C26: in get_rsi, whenever the exact target timestamp is absent from the *)
(* initial fetch, the case of an initial fetch without candles included,   *)
(* exactly one corrective forward fetch starting at the target is issued   *)
(* and merged before the RSI is computed; when the target is present no    *)
(* second fetch is issued.                                                 *)
(***************************************************************************)
C26_CorrectiveFetchWhenAbsent ==
    RsiFetched =>
        LET target_ms == ind_target[1].target_ms
        IN  IF target_ms \in FirstTs
            THEN Len(FetchRequests) = 1
            ELSE /\ Len(FetchRequests) = 2
                 /\ FetchRequests[2] = FetchOhlcv(target_ms, ind_call.period + 2)
                 /\ ind_pc # "more" => TsOf(ind_ohlcv) = FirstTs \cup MoreTs

(***************************************************************************)
(* C26 as the code has it: when the initial fetch of get_rsi holds candles *)
(* but not the target timestamp, exactly one corrective fetch starting at  *)
(* the target is issued and merged before the RSI is computed; when the    *)
(* target is present no second fetch is issued; when the initial fetch     *)
(* holds no candle the call fails with "No OHLCV data returned" and issues *)
(* no second fetch.                                                        *)
(***************************************************************************)
C26_CorrectiveFetchUnlessEmpty ==
    RsiFetched =>
        LET target_ms == ind_target[1].target_ms
        IN  IF FirstTs = {}
            THEN /\ Len(FetchRequests) = 1
                 /\ ind_pc = "raised"
                 /\ ind_result = Raised("ValueError", "No OHLCV data returned")
            ELSE IF target_ms \in FirstTs
            THEN Len(FetchRequests) = 1 /\ ind_pc # "more"
            ELSE /\ Len(FetchRequests) = 2
                 /\ FetchRequests[2] = FetchOhlcv(target_ms, ind_call.period + 2)
                 /\ ind_pc # "more" => TsOf(ind_ohlcv) = FirstTs \cup MoreTs

\* the corrective fetch brought the target candle and the RSI was computed on the merge
C26_Witness ==
    /\ RsiFetched
    /\ ind_pc = "returned"
    /\ FirstTs # {}
    /\ ind_target[1].target_ms \notin FirstTs
    /\ ind_target[1].target_ms \in MoreTs
    /\ Len(FetchRequests) = 2

\* the first fetch held no candle, malformed rows apart
C26_WitnessEmpty ==
    /\ RsiFetched
    /\ FirstTs = {}
    /\ ind_raw # <<>>
    /\ ind_pc = "raised"

(***************************************************************************)
(* SpecRound: a Round built from two instants, then Round.snapped.         *)
(***************************************************************************)
\* lines 15-23; an exception of snap_to_interval leaves the method
snapped(round, timeframe, start_mode, end_mode) ==
    LET s == snap_to_interval(round.window_start, timeframe, start_mode, EvNow)
        e == snap_to_interval(round.window_end, timeframe, end_mode, EvNow)
    IN  IF ~IsDatetime(s) THEN s
        ELSE IF ~IsDatetime(e) THEN e
        ELSE Round(round.key, s, e)

RdInstants == {Utc(k * MinMs) : k \in {0, 10, 50, 60, 90, 120}}

RdTimeframes == {<<"1", "h">>, <<"3", "0", "m">>, <<"1", "x">>, <<"0", "m">>}

InitRound ==
    /\ SnapIdle
    /\ EvIdle
    /\ IxIdle
    /\ RsiIdle
    /\ IndIdle
    /\ BfIdle
    /\ TwIdle
    /\ RepIdle
    /\ rd_pc = "start"
    /\ rd_args \in [window_start : RdInstants, window_end : RdInstants,
                     timeframe : RdTimeframes, start_mode : Modes, end_mode : Modes]
    /\ rd_round = None
    /\ rd_snapped = None

\* lines 9-13: the generated __init__ stores the fields as given
RdConstruct ==
    /\ rd_pc = "start"
    /\ rd_pc' = "built"
    /\ rd_round' = Round("r", rd_args.window_start, rd_args.window_end)
    /\ UNCHANGED <<notRdVars, rd_args, rd_snapped>>

RdSnapped ==
    /\ rd_pc = "built"
    /\ LET out == snapped(rd_round, rd_args.timeframe, rd_args.start_mode, rd_args.end_mode)
       IN  /\ rd_snapped' = out
           /\ rd_pc' = IF IsRaised(out) THEN "raised" ELSE "snapped"
    /\ UNCHANGED <<notRdVars, rd_args, rd_round>>

NextRound == RdConstruct \/ RdSnapped

SpecRound == InitRound /\ [][NextRound]_vars

(***************************************************************************)
(* C23: every Round value that can exist, built directly or returned by    *)
(* Round.snapped with any start_mode and end_mode, has                     *)
(* window_start < window_end.                                              *)
(***************************************************************************)
C23_RoundWindowOrdered ==
    /\ rd_round # None =>
          timestamp(rd_round.window_start) < timestamp(rd_round.window_end)
    /\ rd_pc = "snapped" =>
          timestamp(rd_snapped.window_start) < timestamp(rd_snapped.window_end)

\* the part that the constructor alone breaks, and the part that snapped breaks on
\* a round whose own window is ordered
C23_DirectOrdered ==
    rd_round # None => timestamp(rd_round.window_start) < timestamp(rd_round.window_end)

C23_SnappedOrdered ==
    (/\ rd_pc = "snapped"
     /\ timestamp(rd_round.window_start) < timestamp(rd_round.window_end)) =>
        timestamp(rd_snapped.window_start) < timestamp(rd_snapped.window_end)

(***************************************************************************)
(* SupabaseRoundRepository and BackfillRecentRounds.run                    *)
(*                                                                         *)
(* The two tables are carried by the keys of their rows: rounds by `key`,  *)
(* round_scores by <<round_key, observation_id>>.  A round key is the      *)
(* pair of its bounds as strftime("%Y%m%d%H%M") prints them, that is, to   *)
(* the minute.                                                             *)
(***************************************************************************)
SaveRoundResult(inserted_round, updated_round, inserted_scores, updated_scores, total_scores) ==
    [inserted_round |-> inserted_round, updated_round |-> updated_round,
     inserted_scores |-> inserted_scores, updated_scores |-> updated_scores,
     total_scores |-> total_scores]

\* the requests of save_evaluation that the database may refuse
DbFailures == [exists : BOOLEAN, round : BOOLEAN, select : BOOLEAN, scores : BOOLEAN]

\* lines 18-96: the two tables after the call, and the SaveRoundResult
save_evaluation(rounds_table, scores_table, evaluation, fails) ==
    LET rnd == evaluation.round
        is_insert == IF fails.exists THEN TRUE ELSE rnd.key \notin rounds_table      \* 20-25
        saved_rounds == IF fails.round THEN rounds_table                             \* 34-40
                        ELSE rounds_table \cup {rnd.key}
        rows == {<<rnd.key, evaluation.agent_scores[i].observation_id>> :
                    i \in 1 .. Len(evaluation.agent_scores)}                         \* 42-51
        existing_keys == IF fails.select THEN {} ELSE rows \cap scores_table         \* 62-75
        inserted_rows == rows \ existing_keys
        updated_rows == rows \cap existing_keys
        saved_scores == IF fails.scores THEN scores_table ELSE scores_table \cup rows    \* 80-87
    IN  IF rows = {}                                                                 \* 53-60
        THEN [rounds_table |-> saved_rounds, scores_table |-> scores_table,
              result |-> SaveRoundResult(IF is_insert THEN 1 ELSE 0, IF is_insert THEN 0 ELSE 1,
                                         0, 0, 0)]
        ELSE [rounds_table |-> saved_rounds, scores_table |-> saved_scores,
              result |-> SaveRoundResult(IF is_insert THEN 1 ELSE 0, IF is_insert THEN 0 ELSE 1,
                                         Cardinality(inserted_rows), Cardinality(updated_rows),
                                         Len(evaluation.agent_scores))]

\* lines 98-108: the round_key of the rows of round_scores whose round_key is in keys
existing_round_keys(scores_table, keys) ==
    IF keys = <<>> THEN {}
    ELSE {r[1] : r \in {row \in scores_table : \E i \in 1 .. Len(keys) : keys[i] = row[1]}}

\* backfill_recent_rounds.py lines 26-32: the pattern and the units of _parse_freq
_parse_freq_seconds(freq) ==
    LET a == SkipWhitespace(freq, 1)
        b == SkipDigits(freq, a)
        c == SkipWhitespace(freq, b)
        d == SkipWhitespace(freq, c + 1)
    IN  IF b > a /\ c <= Len(freq) /\ freq[c] \in UnitChars /\ d = Len(freq) + 1
        THEN IntOf(freq, a, b, 0) * _UNITS[lower(freq[c])]
        ELSE NoMatch

BackfillResult(requested, existing, processed, skipped) ==
    [requested |-> requested, existing |-> existing, processed |-> processed,
     skipped |-> skipped]

\* dt.strftime('%Y%m%d%H%M'): the wall clock down to the minute
strftime(dt) == dt.wall \div MinMs

\* line 119: f"round-{start.strftime(...)}-{end.strftime(...)}"
round_key(start, end) == <<"round", strftime(start), strftime(end)>>

\* datetime - timedelta
minus(dt, ms) == Datetime(dt.wall - ms, dt.aware, dt.off)

\* the windows counted back from one step before the anchor
windows_of_shifted(end_anchor, step_ms, n) ==
    [k \in 1 .. n |->
        LET end == minus(end_anchor, k * step_ms)
            start == minus(end, step_ms)
        IN  Round(round_key(start, end), start, end)]

\* lines 114-121: windows[i] for i in range(n), as a sequence from 1
windows_of(end_anchor, step_ms, n) ==
    [k \in 1 .. n |->
        LET end == minus(end_anchor, (k - 1) * step_ms)
            start == minus(end, step_ms)
        IN  Round(round_key(start, end), start, end)]

keys_of(windows) == [k \in 1 .. Len(windows) |-> windows[k].key]

BfCall(op, key, raised) ==
    [op |-> op, key |-> key, ret |-> IF raised THEN "raised" ELSE "returned"]

\* a call of events.count_in_window: `out` is the count, or the exception
CountCall(key, out) ==
    [op |-> "count_in_window", key |-> key,
     ret |-> IF IsRaised(out) THEN "raised" ELSE "returned", value |-> out]

\* what the collaborators do during one pass of the loop body
BfOutcome(count, ingest_raises, post_raises, gen_raises, eval) ==
    [count |-> count, ingest_raises |-> ingest_raises, post_raises |-> post_raises,
     gen_raises |-> gen_raises, eval |-> eval]

\* lines 143-145
should_ingest(min_events_per_round, existing_events) ==
    IF min_events_per_round # None /\ min_events_per_round.int > 0
    THEN existing_events < min_events_per_round.int
    ELSE TRUE

\* the loop body without the try/except around the ingestion: its exception ends the pass
process_window_ingest_aborts(rnd, min_events_per_round, out) ==
    LET existing_events == IF IsRaised(out.count) THEN 0 ELSE out.count.int
        count == <<CountCall(rnd.key, out.count)>>
    IN  IF should_ingest(min_events_per_round, existing_events) /\ out.ingest_raises
        THEN count \o <<BfCall("ingest", rnd.key, TRUE)>>
        ELSE (count
              \o (IF should_ingest(min_events_per_round, existing_events)
                  THEN <<BfCall("ingest", rnd.key, FALSE),
                         BfCall("count_in_window", rnd.key, out.post_raises)>>
                  ELSE <<>>))
             \o <<BfCall("generate_observations", rnd.key, out.gen_raises),
                  BfCall("evaluate_round", rnd.key, IsRaised(out.eval))>>

\* lines 133-203: the calls of one pass of the loop body, every exception swallowed
process_window(rnd, min_events_per_round, out) ==
    LET existing_events == IF IsRaised(out.count) THEN 0 ELSE out.count.int       \* 134-137
        ingest ==
            IF ~should_ingest(min_events_per_round, existing_events) THEN <<>>
            ELSE IF out.ingest_raises THEN <<BfCall("ingest", rnd.key, TRUE)>>   \* 157-179
            ELSE <<BfCall("ingest", rnd.key, FALSE),
                   BfCall("count_in_window", rnd.key, out.post_raises)>>
    IN  (<<CountCall(rnd.key, out.count)>> \o ingest)
        \o <<BfCall("generate_observations", rnd.key, out.gen_raises),        \* 188-196
             BfCall("evaluate_round", rnd.key, IsRaised(out.eval))>>           \* 200-203

(***************************************************************************)
(* SpecBackfill: runs of BackfillRecentRounds.run, one after the other, on *)
(* one instance: the repository keeps what the evaluations of earlier runs *)
(* saved.  _eval.run either raises or returns an evaluation of the round   *)
(* it was given, saved through self.rounds (EvaluateRound lines 77-86).    *)
(***************************************************************************)
MaxRuns == 2

BfNs == {0 - 1, 0, 1, 2}

BfTimeframes == {<<"1", "h">>, <<"3", "0", "m">>, <<"1", "x">>, <<"0", "m">>}

BfNow == Utc(125 * MinMs)

BfMinEvents == {None, IntVal(1)}

BfCounts == {Raised("Exception", "count_in_window failed"), IntVal(0), IntVal(2)}

BfEvaluations ==
    {Raised("Exception", "evaluate failed"),
     [agent_scores |-> <<>>],
     [agent_scores |-> <<RoundAgentScore("a1", "o1", 1)>>]}

\* the writes of save_evaluation that fail in the model
BfDbFailures == {f \in DbFailures : ~f.exists /\ ~f.select}

InitBackfill ==
    /\ SnapIdle
    /\ EvIdle
    /\ IxIdle
    /\ RsiIdle
    /\ IndIdle
    /\ RdIdle
    /\ TwIdle
    /\ RepIdle
    /\ bf_pc = "start"
    /\ bf_args \in [n : BfNs, timeframe : BfTimeframes, now : {BfNow},
                    min_events_per_round : BfMinEvents]
    /\ bf_windows = <<>>
    /\ bf_have = {}
    /\ bf_i = 0
    /\ bf_processed = 0
    /\ bf_skipped = 0
    /\ bf_calls = <<>>
    /\ bf_result = None
    /\ bf_rounds_table = {}
    /\ bf_scores_table = {}
    /\ bf_runs = 1

BfEnd(out) ==
    /\ bf_pc' = IF IsRaised(out) THEN "raised" ELSE "returned"
    /\ bf_result' = out

\* lines 105-126: the n test, the anchor, the windows, the existence query
BfStart ==
    /\ bf_pc = "start"
    /\ IF bf_args.n <= 0
       THEN /\ BfEnd(BackfillResult(0, 0, 0, 0))
            /\ UNCHANGED <<bf_windows, bf_have, bf_i, bf_calls>>
       ELSE LET end_anchor == snap_to_interval(bf_args.now, bf_args.timeframe, "floor",
                                               bf_args.now)
            IN  IF IsRaised(end_anchor)
                THEN /\ BfEnd(end_anchor)
                     /\ UNCHANGED <<bf_windows, bf_have, bf_i, bf_calls>>
                ELSE LET step_ms == _parse_freq_seconds(bf_args.timeframe) * 1000
                         windows == windows_of(end_anchor, step_ms, bf_args.n)
                     IN  \E query_raises \in BOOLEAN :
                            /\ bf_windows' = windows
                            /\ bf_calls' = Append(bf_calls,
                                  BfCall("existing_round_keys", keys_of(windows), query_raises))
                            /\ IF query_raises
                               THEN /\ BfEnd(Raised("Exception", "existing_round_keys failed"))
                                    /\ UNCHANGED <<bf_have, bf_i>>
                               ELSE /\ bf_have' = existing_round_keys(bf_scores_table,
                                                                      keys_of(windows))
                                    /\ bf_i' = 1
                                    /\ bf_pc' = "loop"
                                    /\ bf_result' = bf_result
    /\ UNCHANGED <<notBfVars, bf_args, bf_processed, bf_skipped, bf_rounds_table,
                   bf_scores_table, bf_runs>>

\* lines 128-131
BfSkip ==
    /\ bf_pc = "loop"
    /\ bf_i <= Len(bf_windows)
    /\ bf_windows[bf_i].key \in bf_have
    /\ bf_skipped' = bf_skipped + 1
    /\ bf_i' = bf_i + 1
    /\ UNCHANGED <<notBfVars, bf_pc, bf_args, bf_windows, bf_have, bf_processed, bf_calls,
                   bf_result, bf_rounds_table, bf_scores_table, bf_runs>>

\* lines 128-129, 133-204
BfProcess ==
    /\ bf_pc = "loop"
    /\ bf_i <= Len(bf_windows)
    /\ bf_windows[bf_i].key \notin bf_have
    /\ \E count \in BfCounts, ingest_raises, post_raises, gen_raises \in BOOLEAN,
          eval \in BfEvaluations, fails \in BfDbFailures :
          LET rnd == bf_windows[bf_i]
              out == BfOutcome(count, ingest_raises, post_raises, gen_raises, eval)
              saved == save_evaluation(bf_rounds_table, bf_scores_table,
                                       RoundEvaluation(rnd, eval.agent_scores), fails)
          IN  /\ bf_calls' = bf_calls \o process_window(rnd, bf_args.min_events_per_round, out)
              /\ bf_rounds_table' = IF IsRaised(eval) THEN bf_rounds_table
                                    ELSE saved.rounds_table
              /\ bf_scores_table' = IF IsRaised(eval) THEN bf_scores_table
                                    ELSE saved.scores_table
    /\ bf_processed' = bf_processed + 1
    /\ bf_i' = bf_i + 1
    /\ UNCHANGED <<notBfVars, bf_pc, bf_args, bf_windows, bf_have, bf_skipped, bf_result,
                   bf_runs>>

\* line 206
BfReturn ==
    /\ bf_pc = "loop"
    /\ bf_i > Len(bf_windows)
    /\ BfEnd(BackfillResult(bf_args.n, Cardinality(bf_have), bf_processed, bf_skipped))
    /\ UNCHANGED <<notBfVars, bf_args, bf_windows, bf_have, bf_i, bf_processed, bf_skipped,
                   bf_calls, bf_rounds_table, bf_scores_table, bf_runs>>

\* the next run, with the same arguments, on what the repository holds by now
BfAgain ==
    /\ bf_pc \in {"returned", "raised"}
    /\ bf_runs < MaxRuns
    /\ bf_runs' = bf_runs + 1
    /\ bf_pc' = "start"
    /\ bf_windows' = <<>>
    /\ bf_have' = {}
    /\ bf_i' = 0
    /\ bf_processed' = 0
    /\ bf_skipped' = 0
    /\ bf_calls' = <<>>
    /\ bf_result' = None
    /\ UNCHANGED <<notBfVars, bf_args, bf_rounds_table, bf_scores_table>>

NextBackfill == BfStart \/ BfSkip \/ BfProcess \/ BfReturn \/ BfAgain

SpecBackfill == InitBackfill /\ [][NextBackfill]_vars

\* keys of the windows of the run
BfKeys == {bf_windows[k].key : k \in 1 .. Len(bf_windows)}

(***************************************************************************)
(* C24: existing_round_keys(keys) returns exactly the keys among `keys`    *)
(* that are persisted: once save_evaluation has saved a round, a round     *)
(* without agent scores included, its key is returned, and a later         *)
(* BackfillRecentRounds.run skips that round instead of processing it      *)
(* again.  Stated where the run has its answer and has saved nothing yet.  *)
(***************************************************************************)
C24_ExistingKeysArePersisted ==
    (bf_pc = "loop" /\ bf_i = 1) =>
        bf_have = BfKeys \cap bf_rounds_table

\* what the query does return: the keys that have a row in round_scores
ExistingKeysHaveScores ==
    (bf_pc = "loop" /\ bf_i = 1) =>
        bf_have = {k \in BfKeys : \E row \in bf_scores_table : row[1] = k}

\* the calls of the loop made for the window with this key
CallsFor(key) ==
    SelectSeq(bf_calls, LAMBDA c : c.op # "existing_round_keys" /\ c.key = key)

\* windows the loop has gone through
BfDone == 1 .. (bf_i - 1)

(***************************************************************************)
(* C29: BackfillRecentRounds.run with n > 0 builds exactly n windows, each *)
(* one timeframe step long, contiguous and non-overlapping, the latest     *)
(* ending at floor(now), with pairwise distinct keys; every window is      *)
(* either skipped (its key is in the answer of existing_round_keys) or     *)
(* processed, never both, and processed + skipped == requested == n.  With *)
(* n <= 0 it returns all-zero counts and calls no collaborator.            *)
(***************************************************************************)
C29_WindowsAndCounts ==
    /\ (bf_args.n <= 0 /\ bf_pc # "start") =>
          /\ bf_pc = "returned"
          /\ bf_result = BackfillResult(0, 0, 0, 0)
          /\ bf_calls = <<>>
          /\ bf_windows = <<>>
    /\ (bf_args.n > 0 /\ bf_pc \in {"loop", "returned"}) =>
          LET step == GrammarSeconds(bf_args.timeframe) * 1000
              n == bf_args.n
              now == timestamp(bf_args.now)
          IN  /\ Len(bf_windows) = n
              /\ \A k \in 1 .. n :
                    timestamp(bf_windows[k].window_end)
                        - timestamp(bf_windows[k].window_start) = step
              /\ \A k \in 1 .. (n - 1) :
                    bf_windows[k].window_start = bf_windows[k + 1].window_end
              /\ timestamp(bf_windows[1].window_end) % step = 0
              /\ timestamp(bf_windows[1].window_end) <= now
              /\ now < timestamp(bf_windows[1].window_end) + step
              /\ \A j, k \in 1 .. n : j # k => bf_windows[j].key # bf_windows[k].key
              /\ \A k \in BfDone :
                    IF bf_windows[k].key \in bf_have
                    THEN CallsFor(bf_windows[k].key) = <<>>
                    ELSE CallsFor(bf_windows[k].key) # <<>>
              /\ bf_skipped = Cardinality({k \in BfDone : bf_windows[k].key \in bf_have})
              /\ bf_processed = Cardinality({k \in BfDone : bf_windows[k].key \notin bf_have})
              /\ bf_pc = "returned" =>
                    /\ bf_i = n + 1
                    /\ bf_result = BackfillResult(n, Cardinality(bf_have), bf_processed,
                                                  bf_skipped)
                    /\ bf_result.processed + bf_result.skipped = n
                    /\ bf_result.requested = n

\* a run of two windows that skipped one and processed the other
C29_Witness ==
    /\ bf_pc = "returned"
    /\ bf_args.n = 2
    /\ bf_result.skipped = 1
    /\ bf_result.processed = 1

\* a run with n <= 0 returned
C29_WitnessZero ==
    /\ bf_pc = "returned"
    /\ bf_args.n <= 0
    /\ bf_args.timeframe = <<"1", "x">>

\* position in bf_calls of the first and of the last call made for a key (0 when none)
FirstCall(key) ==
    IF CallsFor(key) = <<>> THEN 0
    ELSE CHOOSE p \in 1 .. Len(bf_calls) :
            /\ bf_calls[p].op # "existing_round_keys" /\ bf_calls[p].key = key
            /\ \A q \in 1 .. (p - 1) :
                  bf_calls[q].op = "existing_round_keys" \/ bf_calls[q].key # key

LastCall(key) ==
    IF CallsFor(key) = <<>> THEN 0
    ELSE CHOOSE p \in 1 .. Len(bf_calls) :
            /\ bf_calls[p].op # "existing_round_keys" /\ bf_calls[p].key = key
            /\ \A q \in (p + 1) .. Len(bf_calls) :
                  bf_calls[q].op = "existing_round_keys" \/ bf_calls[q].key # key

\* the window needs an ingestion, given the count the run got for it
IngestRequired(count_call) ==
    \/ bf_args.min_events_per_round = None
    \/ count_call.ret = "raised" /\ 0 < bf_args.min_events_per_round.int
    \/ count_call.ret = "returned"
          /\ count_call.value.int < bf_args.min_events_per_round.int

(***************************************************************************)
(* C30: in BackfillRecentRounds.run a failure of the event count, of the   *)
(* ingestion, of the observation generation or of the round evaluation for *)
(* one window never aborts the run: for every window that does not exist   *)
(* yet the steps are attempted in the order ingest (when required),        *)
(* generate, evaluate, whatever failed before; the windows that follow are *)
(* still processed; and a window whose evaluation failed still counts as   *)
(* processed.                                                              *)
(***************************************************************************)
C30_FailuresDoNotAbort ==
    /\ bf_pc = "raised" => bf_i = 0
    /\ \A k \in BfDone :
          bf_windows[k].key \notin bf_have =>
             LET cs == CallsFor(bf_windows[k].key)
                 m == Len(cs)
             IN  /\ m >= 3
                 /\ cs[1].op = "count_in_window"
                 /\ cs[m - 1].op = "generate_observations"
                 /\ cs[m].op = "evaluate_round"
                 /\ LET mid == SubSeq(cs, 2, m - 2)
                    IN  IF IngestRequired(cs[1])
                        THEN /\ mid # <<>>
                             /\ mid[1].op = "ingest"
                             /\ mid[1].ret = "raised" => Len(mid) = 1
                             /\ mid[1].ret = "returned" =>
                                   Len(mid) = 2 /\ mid[2].op = "count_in_window"
                        ELSE mid = <<>>
    /\ \A j, k \in BfDone :
          (/\ j < k
           /\ bf_windows[j].key \notin bf_have
           /\ bf_windows[k].key \notin bf_have) =>
              LastCall(bf_windows[j].key) < FirstCall(bf_windows[k].key)
    /\ bf_processed = Cardinality({k \in BfDone : bf_windows[k].key \notin bf_have})
    /\ bf_pc = "returned" /\ bf_args.n > 0 =>
          /\ bf_i = bf_args.n + 1
          /\ bf_result.processed = bf_processed

\* every step of the first window failed; the second was evaluated all the same
C30_Witness ==
    /\ bf_pc = "returned"
    /\ bf_args.n = 2
    /\ bf_result.processed = 2
    /\ LET first == CallsFor(bf_windows[1].key)
           second == CallsFor(bf_windows[2].key)
       IN  /\ \A p \in 1 .. Len(first) : first[p].ret = "raised"
           /\ Len(first) = 4
           /\ second[Len(second)].op = "evaluate_round"
           /\ second[Len(second)].ret = "returned"

(***************************************************************************)
(* SpecTwoEvals: two invocations of EvaluateRound.run on one instance,     *)
(* their steps interleaved in any order (one after the other included).    *)
(* The instance holds the three collaborators only (lines 14-18); obs,     *)
(* asset_cache, failed_assets and agent_scores are locals of run.          *)
(***************************************************************************)
Invocations == {1, 2}

\* an invocation before its first step
TwRun(round) ==
    [pc |-> "start", round |-> round, snapped |-> None, obs |-> <<>>, i |-> 0,
     asset_cache |-> <<>>, failed_assets |-> {}, agent_scores |-> <<>>, calls |-> <<>>,
     result |-> None]

\* a cache kept on the instance: every invocation reads that of the first
asset_cache_of_instance(runs, p) == runs[1].asset_cache

\* line 35: asset_cache: dict[str, float] = {}, a local of the invocation
asset_cache_of(runs, p) == runs[p].asset_cache

\* line 36: failed_assets: set[str] = set(), a local of the invocation
failed_assets_of(runs, p) == runs[p].failed_assets

TwRounds ==
    [p \in Invocations |->
        IF p = 1 THEN Round("r1", Utc(10 * MinMs), Utc(125 * MinMs))
        ELSE Round("r6", Utc(60 * MinMs), Utc(120 * MinMs))]

TwRows == {
    Observation("a1", "e1", Str(BTC), IntVal(2), Uuid(0)),
    Observation("a2", "e1", Str(<<" ", "b", "t", "c", " ">>), IntVal(0 - 1), Uuid(0)),
    Observation("a1", "e2", Str(ETH), IntVal(1), Uuid(0)),
    Observation("a2", "e1", Str(ETH), IntVal(2), NoAttr)
}

TwObservationLists ==
    {WithIds(rows) : rows \in UNION {[1 .. n -> TwRows] : n \in {1, 2}}}

InitTwoEvals ==
    /\ SnapIdle
    /\ EvIdle
    /\ IxIdle
    /\ RsiIdle
    /\ IndIdle
    /\ RdIdle
    /\ BfIdle
    /\ RepIdle
    /\ tw_runs = [p \in Invocations |-> TwRun(TwRounds[p])]
    /\ tw_saved = {}

\* lines 21-32: the window checks, then obs = self.observations.list_in_window(...)
TwStart ==
    \E p \in Invocations :
       /\ tw_runs[p].pc = "start"
       /\ LET wc == window_check(tw_runs[p].round, Tf1h, EvNow)
          IN  IF IsRaised(wc)
              THEN tw_runs' = [tw_runs EXCEPT ![p].pc = "raised", ![p].result = wc]
              ELSE \E obs \in TwObservationLists :
                      tw_runs' = [tw_runs EXCEPT ![p].pc = "loop", ![p].snapped = wc,
                                                 ![p].obs = obs, ![p].i = 1]
       /\ UNCHANGED <<notTwVars, tw_saved>>

\* lines 40-74: one pass of `for o in obs` of invocation p
TwLoopBody ==
    \E p \in Invocations :
       /\ tw_runs[p].pc = "loop"
       /\ tw_runs[p].i <= Len(tw_runs[p].obs)
       /\ \E outcome \in PriceOutcomes :
             LET r == tw_runs[p]
                 st == loop_body(r.obs[r.i], asset_cache_of(tw_runs, p),
                                 failed_assets_of(tw_runs, p), r.agent_scores, r.snapped,
                                 Tf1h, outcome)
             IN  tw_runs' = [tw_runs EXCEPT
                                ![p].asset_cache = st.asset_cache,
                                ![p].failed_assets = st.failed_assets,
                                ![p].agent_scores = st.agent_scores,
                                ![p].calls = r.calls \o st.calls,
                                ![p].i = r.i + 1,
                                ![p].pc = IF st.error = None THEN "loop" ELSE "raised",
                                ![p].result = IF st.error = None THEN r.result ELSE st.error]
       /\ UNCHANGED <<notTwVars, tw_saved>>

\* lines 76-86 of invocation p
TwFinish ==
    \E p \in Invocations :
       /\ tw_runs[p].pc = "loop"
       /\ tw_runs[p].i > Len(tw_runs[p].obs)
       /\ LET r == tw_runs[p]
              ranked == sort_agent_scores(r.agent_scores)
              evaluation == evaluation_of(r.round, r.snapped, ranked)
          IN  \E save_raises \in BOOLEAN :
                 LET out == finish(evaluation, TRUE, save_raises)
                 IN  /\ tw_runs' = [tw_runs EXCEPT ![p].agent_scores = ranked,
                                                   ![p].pc = out.pc,
                                                   ![p].result = out.result]
                     /\ tw_saved' = IF save_raises THEN tw_saved
                                    ELSE tw_saved \cup {evaluation}
       /\ UNCHANGED notTwVars

NextTwoEvals == TwStart \/ TwLoopBody \/ TwFinish

SpecTwoEvals == InitTwoEvals /\ [][NextTwoEvals]_vars

\* what the indicator service answered to invocation r when it asked for sym
\* (a marker when it never asked)
OwnOutcome(r, sym) ==
    LET own == {k \in 1 .. Len(r.calls) : r.calls[k].symbol = sym}
    IN  IF own = {} THEN Raised("NoCall", "the invocation made no call for the symbol")
        ELSE r.calls[CHOOSE k \in own : \A o \in own : k <= o].ret

RECURSIVE RunAlone(_, _, _)
\* the loop of invocation r run by itself over the observations it has gone through,
\* from empty locals, with the answers the indicator service gave to r
RunAlone(r, i, st) ==
    IF i >= r.i \/ st.error # None THEN st
    ELSE LET o == r.obs[i]
             nx == loop_body(o, st.asset_cache, st.failed_assets, st.agent_scores, r.snapped,
                             Tf1h, OwnOutcome(r, normalize_symbol(o.asset_symbol)))
         IN  RunAlone(r, i + 1,
                      Step(nx.asset_cache, nx.failed_assets, nx.agent_scores,
                           st.calls \o nx.calls, nx.error))

Alone(r) == RunAlone(r, 1, Step(<<>>, {}, <<>>, <<>>, None))

\* invocation r asked the indicator service for sym and got `raised` or a price
Asked(r, sym, raised) ==
    \E k \in 1 .. Len(r.calls) : r.calls[k].symbol = sym /\ IsRaised(r.calls[k].ret) = raised

(***************************************************************************)
(* C22: the symbol price cache and the failed-symbol set belong to one     *)
(* invocation of EvaluateRound.run: when two evaluations run on the same   *)
(* instance, interleaved or one after the other, a symbol cached or marked *)
(* failed in one is neither reused nor skipped in the other, and each      *)
(* evaluation makes the calls and returns the result (or raises the error) *)
(* it would when run alone.                                                *)
(***************************************************************************)
C22_EvaluationsIndependent ==
    \A p \in Invocations :
       LET r == tw_runs[p]
           solo == Alone(r)
       IN  r.snapped # None =>
              /\ r.calls = solo.calls
              /\ r.pc = "loop" =>
                    /\ r.asset_cache = solo.asset_cache
                    /\ r.failed_assets = solo.failed_assets
                    /\ r.agent_scores = solo.agent_scores
              /\ r.pc = "raised" => r.result = solo.error
              /\ r.pc = "returned" =>
                    /\ solo.error = None
                    /\ r.result.round = r.round
                    /\ r.result.agent_scores = sort_agent_scores(solo.agent_scores)
              /\ \A i \in 1 .. (r.i - 1) :
                    LET sym == normalize_symbol(r.obs[i].asset_symbol)
                    IN  (sym # <<>> /\ r.obs[i].zi_score # None /\ r.pc # "raised") =>
                           \E k \in 1 .. Len(r.calls) : r.calls[k].symbol = sym

\* BTC failed in the first evaluation and was cached in the second, while both ran:
\* each asked for itself, and the second scored its observation
C22_Witness ==
    /\ tw_runs[1].pc = "returned"
    /\ tw_runs[2].pc = "returned"
    /\ Asked(tw_runs[1], BTC, TRUE)
    /\ Asked(tw_runs[2], BTC, FALSE)
    /\ tw_runs[1].result.agent_scores = <<>>
    /\ tw_runs[2].result.agent_scores # <<>>

(***************************************************************************)
(* SpecRepeat: one indicator call made twice on a service whose exchange   *)
(* holds one candle history.  The exchange answers a fetch with the first  *)
(* candles of the history from `since` on, at most `limit` and at most one *)
(* page of them, listed in any order; it lists the symbol or not, and the  *)
(* cached markets hold nothing the exchange does not list.  Between the    *)
(* two calls another call may have reloaded the markets.                   *)
(***************************************************************************)
RepRows == {Row(k * HourMs, c, TRUE) : k \in 0 .. 3, c \in {1, 2}}

RepHistories == {h \in SUBSET RepRows : \A a, b \in h : a.ts = b.ts => a = b}

RepPages == {2, 8}

\* the candles the exchange puts in its response to a fetch request
Answer(req) ==
    LET from == {r \in rep_history : r.ts >= req.since}
        n == IF req.limit < rep_page THEN req.limit ELSE rep_page
    IN  {r \in from : Cardinality({o \in from : o.ts < r.ts}) < n}

\* the orders in which a response may list them
Listings(rows) ==
    {f \in [1 .. Cardinality(rows) -> rows] :
        \A i, j \in 1 .. Cardinality(rows) : i # j => f[i] # f[j]}

\* the request the call is waiting on
Pending == ind_io[Len(ind_io)]

InitRepeat ==
    /\ SnapIdle
    /\ EvIdle
    /\ IxIdle
    /\ RsiIdle
    /\ RdIdle
    /\ BfIdle
    /\ TwIdle
    /\ ind_pc = "start"
    /\ ind_call \in IndCalls
    /\ ind_markets \in BOOLEAN
    /\ ind_io = <<>>
    /\ ind_target = <<>>
    /\ ind_raw = <<>>
    /\ ind_more = <<>>
    /\ ind_ohlcv = <<>>
    /\ ind_result = None
    /\ rep_history \in RepHistories
    /\ rep_listed \in BOOLEAN
    /\ ind_markets => rep_listed
    /\ rep_page \in RepPages
    /\ rep_n = 1
    /\ rep_first = None

RepArgs == IndArgs

RepMarket == IndMarketWith({rep_listed})

RepFetch == IndFetchFrom(Listings(Answer(Pending)))

RepMore == IndMoreFrom(Listings(Answer(Pending)))

\* the same call, made again
RepAgain ==
    /\ rep_n = 1
    /\ ind_pc \in {"returned", "raised"}
    /\ rep_n' = 2
    /\ rep_first' = ind_result
    /\ ind_pc' = "start"
    /\ ind_io' = <<>>
    /\ ind_target' = <<>>
    /\ ind_raw' = <<>>
    /\ ind_more' = <<>>
    /\ ind_ohlcv' = <<>>
    /\ ind_result' = None
    /\ UNCHANGED <<snapVars, evVars, ixVars, rsiVars, rdVars, bfVars, twVars, rep_history,
                   rep_listed, rep_page, ind_call, ind_markets>>

\* lines 62-66 of a call made in between for another symbol: load_markets(True)
RepBetween ==
    /\ rep_n = 2
    /\ ind_pc = "start"
    /\ ind_markets # rep_listed
    /\ ind_markets' = rep_listed
    /\ UNCHANGED <<notIndVars, ind_pc, ind_call, ind_io, ind_target, ind_raw, ind_more,
                   ind_ohlcv, ind_result>>

NextRepeat == RepArgs \/ RepMarket \/ RepFetch \/ RepMore \/ RepAgain \/ RepBetween

SpecRepeat == InitRepeat /\ [][NextRepeat]_vars

(***************************************************************************)
(* C21: two calls of the same indicator operation with the same arguments  *)
(* against the same candle history return the same result or raise the     *)
(* same error, whatever the order in which the exchange lists the candles  *)
(* within each response and whatever calls were made in between.           *)
(***************************************************************************)
C21_SameHistorySameResult ==
    (rep_n = 2 /\ ind_pc \in {"returned", "raised"}) => ind_result = rep_first

\* the second call got its candles out of order, made the corrective fetch, and
\* returned a value
C21_Witness ==
    /\ rep_n = 2
    /\ ind_pc = "returned"
    /\ Len(ind_raw) >= 2
    /\ ind_raw[1].ts > ind_raw[2].ts
    /\ ind_more # <<>>
    /\ ind_result = rep_first

====
